---- MODULE Spec2Model ----
(***************************************************************************)
(* discogsdash: the collection synchronisation engine.                     *)
(*   src/lib/retryUtils.ts      withRetry, createDiscogsRetryOptions       *)
(*   src/lib/discogs/client.ts  makeDiscogsRequest, fetchPriceSuggestions  *)
(*   src/lib/db (pg version)    getDb().transaction, setSetting            *)
(*   src/lib/syncLogic.ts       runCollectionSync                          *)
(*   src/lib/discogs/oauth.ts   DiscogsOAuth and the routes api/oauth      *)
(*   src/lib/scheduler.ts       setupScheduler                             *)
(*   api/collection/sync/status GET, the poller of the progress keys       *)
(* Every await of the source is one step of the model, so that a poller or *)
(* a second trigger can be placed between any two of them.                 *)
(***************************************************************************)
EXTENDS Integers, Sequences, FiniteSets, TLC

VARIABLES
    settings,   \* table settings: key -> value (a missing key is a missing row)
    items,      \* committed table collection_items: instance id -> row
    stats,      \* committed table collection_stats_history, in insertion order
    clock,      \* Date.now(), advanced once per run
    env,        \* process.env: DISCOGS_USERNAME and the consumer key pair
    server,     \* the user's collection as Discogs holds it
    pc,         \* per trigger: the await the run is suspended at
    loc,        \* per trigger: the locals of runCollectionSync
    retry,      \* per trigger: the locals of the withRetry call in flight
    tx,         \* per trigger: the open transaction of the pooled client
    obs,        \* per trigger: what the run has done so far (history only)
    files,      \* /tmp/oauth-tokens: request token -> the ticket file of its name
    flow,       \* the OAuth route handler in progress: its position and locals
    discogs,    \* Discogs beside the collection: the request tokens issued and used,
                \* and whether its listing goes on linking after MaxPages pages
    sched,      \* scheduler.ts: SYNC_CRON_SCHEDULE, the timer and what was logged
    poll        \* sync/status/route.ts GET in progress: its position and locals

vars == <<settings, items, stats, clock, env, server, pc, loc, retry, tx, obs,
          files, flow, discogs, sched, poll>>

\* the variables of the OAuth handshake, of the scheduler and of the status route
outside == <<files, flow, discogs, sched, poll>>

----------------------------------------------------------------------------
(* Bounds of the model.                                                    *)

MaxRuns == 2            \* runs started in one behaviour
MaxPages == 2           \* pages the server serves before it stops linking on
MaxPageLen == 2         \* releases on one page
MaxRetriesBound == 2    \* largest maxRetries of a stand-alone withRetry policy

\* A nullable value: None is JavaScript null / undefined or SQL NULL
None == << >>
Some(v) == <<v>>

Runs == {"http", "timer"}   \* the two callers: sync/route.ts GET and the cron callback

Min(a, b) == IF a <= b THEN a ELSE b
Max(a, b) == IF a >= b THEN a ELSE b

----------------------------------------------------------------------------
(* Error objects.  A message is the sequence of its pieces; includes() is  *)
(* decided piece by piece, from the substrings each piece holds.           *)

\* String.prototype.toLowerCase on one piece
ToLowerCase(piece) ==
    CASE piece = "Too Many Requests" -> "too many requests"
      [] piece = "Internal Server Error" -> "internal server error"
      [] piece = "Not Found" -> "not found"
      [] piece = "Unauthorized" -> "unauthorized"
      [] piece = "Connection terminated unexpectedly" -> "connection terminated unexpectedly"
      [] piece = "Network error" -> "network error"
      [] piece = "Invalid request token response" -> "invalid request token response"
      [] piece = "Invalid access token response" -> "invalid access token response"
      [] piece = "Invalid access token" -> "invalid access token"
      [] piece = "Request Timeout" -> "request timeout"
      [] piece = "Not Implemented" -> "not implemented"
      [] OTHER -> piece

\* the needles of retryUtils.ts and client.ts that occur inside a piece
Parts(piece) ==
    CASE piece = "connection terminated unexpectedly" -> {piece, "connection"}
      [] piece = "network error" -> {piece, "network"}
      [] piece = "invalid request token response" -> {piece, "invalid request token"}
      [] piece = "invalid access token response" -> {piece, "invalid access token"}
      [] piece = "request timeout" -> {piece, "timeout"}
      [] OTHER -> {piece}

\* message.includes(needle)
Includes(message, needle) ==
    \E i \in 1..Len(message) : needle \in Parts(message[i])

\* message.toLowerCase().includes(needle)
LowerIncludes(message, needle) ==
    \E i \in 1..Len(message) : needle \in Parts(ToLowerCase(message[i]))

\* new Error(message), with the code property Node puts on system errors
Error(message, code) == [name |-> "Error", message |-> message, code |-> code]

\* retryUtils.ts 36
NoAttemptsError == Error(<<"No attempts made">>, "")

\* retryUtils.ts 16-25 and 79-83
RetryError_short(maxRetries, lastError) ==
    [name |-> "RetryError",
     message |-> <<"Operation failed after", ToString(maxRetries), "attempts:">>
                    \o lastError.message,
     code |-> "",
     attempts |-> maxRetries,
     lastError |-> lastError]
RetryError(maxRetries, lastError) ==
    [name |-> "RetryError",
     message |-> <<"Operation failed after", ToString(maxRetries + 1), "attempts:">>
                    \o lastError.message,
     code |-> "",
     attempts |-> maxRetries + 1,
     lastError |-> lastError]

----------------------------------------------------------------------------
(* retryUtils.ts: the retry predicates and the policies.                   *)
(* Delays are kept in 1/256 ms so that the multiplier 1.5 stays exact.     *)

Ms(n) == 256 * n

\* retryUtils.ts 86-113
defaultRetryCondition(error) ==
    IF error.code = "ECONNREFUSED" \/ error.code = "ETIMEDOUT" THEN TRUE
    ELSE IF LowerIncludes(error.message, "429")
            \/ LowerIncludes(error.message, "too many requests") THEN TRUE
    ELSE IF LowerIncludes(error.message, "500") \/ LowerIncludes(error.message, "502")
            \/ LowerIncludes(error.message, "503") \/ LowerIncludes(error.message, "504") THEN TRUE
    ELSE IF LowerIncludes(error.message, "network") \/ LowerIncludes(error.message, "timeout")
            \/ LowerIncludes(error.message, "connection") THEN TRUE
    ELSE FALSE

\* retryUtils.ts 121-167
discogsRetryCondition(error) ==
    IF error.code = "ECONNREFUSED" \/ error.code = "ETIMEDOUT" THEN TRUE
    ELSE IF LowerIncludes(error.message, "invalid request token")
            \/ LowerIncludes(error.message, "invalid access token")
            \/ (LowerIncludes(error.message, "unauthorized")
                /\ LowerIncludes(error.message, "oauth")) THEN FALSE
    ELSE IF LowerIncludes(error.message, "429")
            \/ LowerIncludes(error.message, "too many requests") THEN TRUE
    ELSE IF LowerIncludes(error.message, "500") \/ LowerIncludes(error.message, "502")
            \/ LowerIncludes(error.message, "503") \/ LowerIncludes(error.message, "504") THEN TRUE
    ELSE IF LowerIncludes(error.message, "network") \/ LowerIncludes(error.message, "timeout")
            \/ LowerIncludes(error.message, "connection")
            \/ LowerIncludes(error.message, "enotfound")
            \/ LowerIncludes(error.message, "socket hang up") THEN TRUE
    ELSE FALSE

retryCondition(opts, error) ==
    IF opts.retryCondition = "discogs" THEN discogsRetryCondition(error)
    ELSE defaultRetryCondition(error)

\* retryUtils.ts 115-120
createDiscogsRetryOptions ==
    [maxRetries |-> 8, baseDelay |-> Ms(2000), maxDelay |-> Ms(60000),
     backoffMultiplier |-> <<3, 2>>, retryCondition |-> "discogs"]

\* retryUtils.ts 28-34
defaultRetryOptions ==
    [maxRetries |-> 5, baseDelay |-> Ms(1000), maxDelay |-> Ms(30000),
     backoffMultiplier |-> <<2, 1>>, retryCondition |-> "default"]

\* retryUtils.ts 39: the first value of the loop counter
FirstAttempt == 1

\* retryUtils.ts 39: attempt++
NextAttempt_same(attempt) == attempt
NextAttempt(attempt) == attempt + 1

\* retryUtils.ts 39: the loop condition
LoopCondition(attempt, maxRetries) == attempt <= maxRetries + 1

\* retryUtils.ts 50: "Don't retry on the last attempt"
IsLastAttempt(attempt, maxRetries) == attempt > maxRetries

\* retryUtils.ts 63
IsRateLimit(error) ==
    Includes(error.message, "429") \/ LowerIncludes(error.message, "too many requests")

\* retryUtils.ts 62-67
ActualDelay(delay, error) ==
    IF IsRateLimit(error) THEN Max(delay, Ms(5000)) ELSE delay

\* retryUtils.ts 75
NextDelay(delay, opts) ==
    Min((delay * opts.backoffMultiplier[1]) \div opts.backoffMultiplier[2], opts.maxDelay)

\* no withRetry call in flight
NoRetry ==
    [phase |-> "none", op |-> "none", opts |-> defaultRetryOptions,
     attempt |-> 0, delay |-> 0, lastError |-> NoAttemptsError,
     calls |-> 0, actualDelay |-> 0, slept |-> 0, retryAfter |-> None,
     result |-> [kind |-> "null"]]

\* retryUtils.ts 27-37: the state of withRetry when it enters its loop
BeginRetry(op, opts) ==
    [phase |-> "attempt", op |-> op, opts |-> opts,
     attempt |-> FirstAttempt, delay |-> opts.baseDelay, lastError |-> NoAttemptsError,
     calls |-> 0, actualDelay |-> 0, slept |-> 0, retryAfter |-> None,
     result |-> [kind |-> "null"]]

----------------------------------------------------------------------------
(* The Discogs server and discogs/client.ts.                               *)

\* a parsed JSON body, or null for 204 No Content (client.ts 236-238)
NullBody == [kind |-> "null"]

\* releases as the collection endpoint lists them; a release without
\* basic_information or with id 0 is skipped by syncLogic.ts 151
RelA == [instance_id |-> 1, id |-> 11, basic_information |-> TRUE]
RelB == [instance_id |-> 2, id |-> 12, basic_information |-> TRUE]
RelA2 == [instance_id |-> 1, id |-> 12, basic_information |-> TRUE]
RelBad == [instance_id |-> 2, id |-> 13, basic_information |-> FALSE]

\* the collections the server may hold: two distinct valid releases; a valid
\* release, an invalid one and a second copy under the instance id of the first
ServerCollections == {<<RelA, RelB>>, <<RelA, RelBad, RelA2>>}

CollectionPath == "/users/u/collection/folders/0/releases"

\* syncLogic.ts 69
collectionEndpoint == [pathname |-> CollectionPath, search |-> <<"per_page=100">>]

\* syncLogic.ts 111
valueEndpoint == [pathname |-> "/users/u/collection/value", search |-> << >>]

\* client.ts 252
priceEndpoint(releaseId) ==
    [pathname |-> "/marketplace/price_suggestions", search |-> <<releaseId>>]

\* pagination.urls.next as the server writes it: absent, an absolute URL, or
\* a reference that new URL() rejects
NextRefs(page) ==
    {None,
     Some([origin |-> "https://api.discogs.com", pathname |-> CollectionPath,
           search |-> <<"page", page + 1, "per_page=100">>]),
     Some([origin |-> "", pathname |-> CollectionPath,
           search |-> <<"page", page + 1, "per_page=100">>])}

\* new URL(ref): throws a TypeError unless the reference is absolute
URLParses(ref) == ref.origin # ""

\* a page of the listing: the next releases of the collection after the
\* delivered ones, at most MaxPageLen of them, and a continuation reference;
\* the server stops linking after MaxPages pages unless it is one that links
\* every page to a next one
PageBodies(delivered, page) ==
    {[kind |-> "page",
      releases |-> SubSeq(server, delivered + 1, delivered + n),
      next |-> nx] :
        n \in 0..Min(MaxPageLen, Len(server) - delivered),
        nx \in IF page < MaxPages \/ discogs.endless THEN NextRefs(page) ELSE {None}}

\* the aggregate value, as locale-formatted currency strings (one character per element)
ValueBodies ==
    {[kind |-> "value",
      minimum |-> <<"$", "1", ",", "2", "3", "4", ".", "5", "6">>,
      median |-> <<"$", "2", "0", ".", "5", "0">>,
      maximum |-> <<"$", "3", "0">>]}

\* price suggestions: condition -> value
PriceBodies ==
    {[kind |-> "prices", map |-> [c \in {"Good (G)", "Mint (M)"} |->
                                     IF c = "Mint (M)" THEN 20 ELSE 5]],
     [kind |-> "prices", map |-> [c \in {"Generic"} |-> 9]]}

\* the value the marketplace suggests for a condition
SuggestionOf(condition) ==
    CASE condition = "Mint (M)" -> 20
      [] condition = "Near Mint (NM or M-)" -> 18
      [] condition = "Very Good Plus (VG+)" -> 15
      [] condition = "Very Good (VG)" -> 12
      [] condition = "Good Plus (G+)" -> 8
      [] condition = "Good (G)" -> 5
      [] condition = "Fair (F)" -> 2
      [] condition = "Poor (P)" -> 1
      [] OTHER -> 9

\* every suggestion map: any of the eight conditions and a key that is none of them
AllPriceBodies ==
    {[kind |-> "prices", map |-> [c \in keys |-> SuggestionOf(c)]] :
        keys \in SUBSET {"Mint (M)", "Near Mint (NM or M-)", "Very Good Plus (VG+)",
                         "Very Good (VG)", "Good Plus (G+)", "Good (G)", "Fair (F)",
                         "Poor (P)", "Generic"}}

BodiesFor(op, l) ==
    CASE op = "page" -> PageBodies(Len(l.allReleases), l.pageCount)
      [] op = "value" -> ValueBodies
      [] op = "price" -> PriceBodies
      [] op = "lookup" -> AllPriceBodies
      [] OTHER -> {NullBody}

\* client.ts 233
HttpError(status, statusText, body) ==
    Error(<<"Discogs API request failed:", status, statusText, "-">> \o body, "")

\* the non-2xx responses the server gives in a run
ErrorResponses ==
    {HttpError("429", "Too Many Requests", << >>),
     HttpError("404", "Not Found", << >>),
     HttpError("401", "Unauthorized", << >>)}

\* non-2xx responses whose body text holds a number or a word (the body is
\* part of the message of the error, client.ts 223 and 233), and responses
\* of other statuses
ErrorResponsesWithBody ==
    {HttpError("401", "Unauthorized", <<"upstream answered", "404">>),
     HttpError("404", "Not Found", <<"timeout">>),
     HttpError("500", "Internal Server Error", << >>),
     HttpError("501", "Not Implemented", << >>),
     HttpError("408", "Request Timeout", << >>)}

\* the non-2xx responses to a request of the kind op
ErrorResponsesOf(op) ==
    IF op = "lookup" THEN ErrorResponses \cup ErrorResponsesWithBody ELSE ErrorResponses

\* fetch() itself rejecting (undici: TypeError "fetch failed", no code property)
FetchFailures == {[name |-> "TypeError", message |-> <<"fetch failed">>, code |-> ""]}

\* client.ts 198
NoTokensError ==
    Error(<<"No OAuth tokens found. Please complete OAuth authentication first.">>, "")

\* oauth.ts 73-75
NoConsumerError ==
    Error(<<"DISCOGS_CONSUMER_KEY and DISCOGS_CONSUMER_SECRET must be set">>, "")

\* db: getSetting (pg version), a missing row reads as null
getSetting(key) == IF key \in DOMAIN settings THEN Some(settings[key]) ELSE None

\* oauth.ts 86-101: both rows present and non-empty
getStoredTokens_unchecked ==
    Some([key |-> IF getSetting("oauth_token") # None THEN settings["oauth_token"] ELSE "",
          secret |-> IF getSetting("oauth_token_secret") # None
                     THEN settings["oauth_token_secret"] ELSE ""])
getStoredTokens ==
    IF getSetting("oauth_token") # None /\ getSetting("oauth_token_secret") # None
       /\ settings["oauth_token"] # "" /\ settings["oauth_token_secret"] # ""
    THEN Some([key |-> settings["oauth_token"], secret |-> settings["oauth_token_secret"]])
    ELSE None

\* the outcome of one invocation of the operation; retryAfter is the Retry-After
\* header of the response that made it fail (client.ts 226-231 reads and logs
\* it); auth is the Authorization header of the request, null when none was sent
Threw(e, fetched) ==
    [ok |-> FALSE, value |-> NullBody, error |-> e, fetched |-> fetched,
     retryAfter |-> None, auth |-> None]
Returned(v, fetched) ==
    [ok |-> TRUE, value |-> v, error |-> NoAttemptsError, fetched |-> fetched,
     retryAfter |-> None, auth |-> None]

\* oauth.ts 77-83 and 233-241: the OAuth 1.0a header of a request, signed
\* PLAINTEXT: the signature is the consumer secret and the token secret
getAuthHeaders_unsigned(tokens) ==
    [oauth_consumer_key |-> "consumer-key", oauth_token |-> "",
     oauth_signature |-> <<"consumer-secret", "">>]
getAuthHeaders(tokens) ==
    [oauth_consumer_key |-> "consumer-key", oauth_token |-> tokens.key,
     oauth_signature |-> <<"consumer-secret", tokens.secret>>]

\* client.ts 204-220: the request goes out with the header of the tokens read
Sent(outcome, tokens) == [outcome EXCEPT !.auth = Some(getAuthHeaders(tokens))]

\* the seconds a 429 response may name in its Retry-After header
RetryAfterSeconds == {1, 10}

\* client.ts 222-233: a 429 response with a Retry-After header; the header is
\* logged and the error thrown carries status, status text and body only
RateLimited(seconds) ==
    [Threw(HttpError("429", "Too Many Requests", << >>), FALSE)
        EXCEPT !.retryAfter = Some(seconds)]

\* client.ts 193-241: one invocation of the operation makeDiscogsRequest hands
\* to withRetry, with every answer the server may give
DiscogsOperation(op, l) ==
    IF ~env.consumer THEN {Threw(NoConsumerError, FALSE)}
    ELSE IF getStoredTokens = None THEN {Threw(NoTokensError, FALSE)}
    ELSE {Sent(Threw(e, TRUE), getStoredTokens[1]) :
             e \in FetchFailures \cup ErrorResponsesOf(op)}
         \cup {Sent(Returned(b, TRUE), getStoredTokens[1]) :
                 b \in BodiesFor(op, l) \cup {NullBody}}

\* the errors of a stand-alone operation
StandaloneErrors ==
    ErrorResponses
    \cup FetchFailures
    \cup {HttpError("500", "Internal Server Error", << >>),
          Error(<<"Network error">>, ""),
          Error(<<"connect">>, "ECONNREFUSED"),
          Error(<<"Invalid access token">>, "")}

StandaloneOperation ==
    {Threw(e, FALSE) : e \in StandaloneErrors}
    \cup {RateLimited(s) : s \in RetryAfterSeconds}
    \cup {Returned(NullBody, FALSE)}

----------------------------------------------------------------------------
(* retryUtils.ts 39-83: one iteration of the loop of withRetry, from the   *)
(* call of the operation to the end of the sleep that follows a failure.   *)

\* the state of the call after its operation answered with outcome
\* (retryUtils.ts 41-76), or after the loop ended (79-83)
AfterAttempt(w, outcome) ==
    LET called == [w EXCEPT !.calls = w.calls + 1]
    IN  IF outcome.ok
        THEN [called EXCEPT !.phase = "returned", !.result = outcome.value,
                            !.retryAfter = None]
        ELSE LET failed == [called EXCEPT !.lastError = outcome.error,
                                          !.retryAfter = outcome.retryAfter]
             IN  IF IsLastAttempt(w.attempt, w.opts.maxRetries)
                 THEN [failed EXCEPT !.phase = "threw",
                                     !.result = RetryError(w.opts.maxRetries, outcome.error)]
                 ELSE IF ~retryCondition(w.opts, outcome.error)
                 THEN [failed EXCEPT !.phase = "threw", !.result = outcome.error]
                 ELSE [failed EXCEPT !.actualDelay = ActualDelay(w.delay, outcome.error),
                                     !.slept = w.slept + 1,
                                     !.delay = NextDelay(w.delay, w.opts),
                                     !.attempt = NextAttempt(w.attempt)]

Attempt(r) ==
    /\ retry[r].phase = "attempt"
    /\ IF LoopCondition(retry[r].attempt, retry[r].opts.maxRetries)
       THEN \E outcome \in IF retry[r].op = "standalone" THEN StandaloneOperation
                           ELSE DiscogsOperation(retry[r].op, loc[r]) :
                /\ retry' = [retry EXCEPT ![r] = AfterAttempt(retry[r], outcome)]
                /\ obs' = [obs EXCEPT ![r].requestSent = @ \/ outcome.fetched,
                                      ![r].sentAuth = IF outcome.fetched THEN outcome.auth
                                                      ELSE @]
       ELSE /\ retry' = [retry EXCEPT ![r].phase = "threw",
                                      ![r].result = RetryError(retry[r].opts.maxRetries,
                                                               retry[r].lastError)]
            /\ obs' = obs
    /\ UNCHANGED <<outside, settings, items, stats, clock, env, server, pc, loc, tx>>

----------------------------------------------------------------------------
(* The tables.                                                             *)

EmptyTable == [i \in {} |-> None]

\* INSERT ... ON CONFLICT (key) DO UPDATE on a table keyed by its first column
Upsert(table, key, row) ==
    [k \in DOMAIN table \cup {key} |-> IF k = key THEN row ELSE table[k]]

\* the item columns the model keeps (syncLogic.ts 227-249): id, release_id,
\* suggested_value, last_value_check
ItemRow(release, value, check) ==
    [id |-> release.instance_id, release_id |-> release.id,
     suggested_value |-> value, last_value_check |-> check]

\* syncLogic.ts 264
StatsRow(timestamp, total, minValue, medianValue, maxValue) ==
    [timestamp |-> timestamp, total_items |-> total,
     value_min |-> minValue, value_mean |-> medianValue, value_max |-> maxValue]

\* no transaction open on the client (db 278-290)
\* waiting: the DELETE of the transaction waits for the row locks of another
NoTx == [open |-> FALSE, deleted |-> {}, written |-> EmptyTable, stats |-> << >>,
         waiting |-> FALSE]

\* the rows another open transaction has deleted: they stay locked until that
\* transaction commits or rolls back
LockedRows(r) ==
    UNION {tx[o].deleted : o \in {x \in Runs \ {r} : tx[x].open /\ ~tx[x].waiting}}

\* db 283-287: the transaction of r is over, its locks are free
AfterClose(r) ==
    [o \in Runs |-> IF o = r THEN NoTx ELSE [tx[o] EXCEPT !.waiting = FALSE]]

\* syncLogic.ts 141: the DELETE of r has returned
DeleteReturned(r) == ~tx[r].waiting

\* COMMIT: the deletions, then the rows written, then the appended snapshots
CommittedItems(t) ==
    [k \in (DOMAIN items \ t.deleted) \cup DOMAIN t.written |->
        IF k \in DOMAIN t.written THEN t.written[k] ELSE items[k]]

\* a query or a connection of the pool failing
QueryError(statement) == Error(<<"query failed", statement>>, "")

\* db 294-300 failing
StoreError == Error(<<"Connection terminated unexpectedly">>, "")

----------------------------------------------------------------------------
(* syncLogic.ts 122-138 parseValue and 169-196, the condition fallback.    *)

CurrencySymbols == {"$", ",", "€", "£", "¥"}

Digits == {"0", "1", "2", "3", "4", "5", "6", "7", "8", "9"}

DigitValue(c) ==
    CASE c = "0" -> 0 [] c = "1" -> 1 [] c = "2" -> 2 [] c = "3" -> 3 [] c = "4" -> 4
      [] c = "5" -> 5 [] c = "6" -> 6 [] c = "7" -> 7 [] c = "8" -> 8 [] OTHER -> 9

\* str.replace(/[chars]/g, "")
RECURSIVE RemoveAll(_, _)
RemoveAll(str, chars) ==
    IF str = << >> THEN << >>
    ELSE IF Head(str) \in chars THEN RemoveAll(Tail(str), chars)
    ELSE <<Head(str)>> \o RemoveAll(Tail(str), chars)

\* full.lastIndexOf(c), 0 when absent (positions count from 1)
LastIndexOf(str, c) ==
    IF \E i \in 1..Len(str) : str[i] = c
    THEN CHOOSE i \in 1..Len(str) : str[i] = c /\ \A j \in (i + 1)..Len(str) : str[j] # c
    ELSE 0

\* syncLogic.ts 127-129: every dot but the last one is dropped
RECURSIVE KeepLastDot(_, _, _)
KeepLastDot(str, i, last) ==
    IF i > Len(str) THEN << >>
    ELSE IF str[i] = "." /\ i # last THEN KeepLastDot(str, i + 1, last)
    ELSE <<str[i]>> \o KeepLastDot(str, i + 1, last)

\* str.replace(/,/g, ".")
CommasToDots(str) == [i \in 1..Len(str) |-> IF str[i] = "," THEN "." ELSE str[i]]

\* the longest prefix of str made of digits, from position i
RECURSIVE DigitRun(_, _)
DigitRun(str, i) ==
    IF i <= Len(str) /\ str[i] \in Digits THEN <<str[i]>> \o DigitRun(str, i + 1) ELSE << >>

RECURSIVE DigitsToNat(_)
DigitsToNat(ds) ==
    IF ds = << >> THEN 0 ELSE 10 * DigitsToNat(SubSeq(ds, 1, Len(ds) - 1)) + DigitValue(ds[Len(ds)])

RECURSIVE Pow10(_)
Pow10(n) == IF n = 0 THEN 1 ELSE 10 * Pow10(n - 1)

\* a decimal number m / 10^s without trailing zeros in the fraction
RECURSIVE Decimal(_, _)
Decimal(m, s) == IF s > 0 /\ m % 10 = 0 THEN Decimal(m \div 10, s - 1) ELSE <<m, s>>

\* parseFloat on an unsigned decimal literal: the longest numeric prefix, NaN
\* (None) when there is none
parseFloat(str) ==
    LET int == DigitRun(str, 1)
        hasDot == Len(int) < Len(str) /\ str[Len(int) + 1] = "."
        frac == IF hasDot THEN DigitRun(str, Len(int) + 2) ELSE << >>
    IN  IF int = << >> /\ frac = << >> THEN None
        ELSE Some(Decimal(DigitsToNat(int) * Pow10(Len(frac)) + DigitsToNat(frac), Len(frac)))

\* syncLogic.ts 122-138
parseValue_zero(valueStr) ==
    IF valueStr = << >> THEN Some(<<0, 0>>)
    ELSE LET stripped == RemoveAll(valueStr, CurrencySymbols)
             cleaned == CommasToDots(KeepLastDot(stripped, 1, LastIndexOf(stripped, ".")))
         IN  parseFloat(cleaned)
parseValue(valueStr) ==
    IF valueStr = << >> THEN None
    ELSE LET stripped == RemoveAll(valueStr, CurrencySymbols)
             cleaned == CommasToDots(KeepLastDot(stripped, 1, LastIndexOf(stripped, ".")))
         IN  parseFloat(cleaned)

\* syncLogic.ts 169-178
conditionOrder_worstFirst ==
    <<"Poor (P)", "Fair (F)", "Good (G)", "Good Plus (G+)", "Very Good (VG)",
      "Very Good Plus (VG+)", "Near Mint (NM or M-)", "Mint (M)">>
conditionOrder ==
    <<"Mint (M)", "Near Mint (NM or M-)", "Very Good Plus (VG+)", "Very Good (VG)",
      "Good Plus (G+)", "Good (G)", "Fair (F)", "Poor (P)">>

\* syncLogic.ts 180-196: the value of the first condition of the order that
\* the suggestions hold, null when there is none
RECURSIVE ResolveFrom(_, _)
ResolveFrom(map, i) ==
    IF i > Len(conditionOrder) THEN None
    ELSE IF conditionOrder[i] \in DOMAIN map THEN Some(map[conditionOrder[i]])
    ELSE ResolveFrom(map, i + 1)

ResolveValue(suggestions) ==
    IF suggestions.kind = "prices" THEN ResolveFrom(suggestions.map, 1) ELSE None

----------------------------------------------------------------------------
(* syncLogic.ts 47-287: runCollectionSync.  pc names the line of the await *)
(* the run is suspended at.                                                *)

\* db 294-300: the row of the key is inserted or replaced
Put(key, value) ==
    [k \in DOMAIN settings \cup {key} |-> IF k = key THEN value ELSE settings[k]]

\* Number.prototype.toString
NumberToString(n) == ToString(n)

\* syncLogic.ts 60
NoUsernameError ==
    Error(<<"Sync failed: DISCOGS_USERNAME environment variable not set.">>, "")

NoLocals ==
    [allReleases |-> << >>, nextUrl |-> None, pageCount |-> 0,
     totalItemsToProcess |-> 0, valueResponse |-> NullBody, processedCount |-> 0,
     currentTimestamp |-> 0, itemSuggestedValue |-> None, lastCheckTimestamp |-> None,
     error |-> NoAttemptsError]

NoHistory ==
    [preItems |-> EmptyTable, preStats |-> << >>, requestSent |-> FALSE, failedAt |-> "",
     handlerFailed |-> FALSE, result |-> "none", raised |-> NoAttemptsError,
     itemCount |-> 0, txBegun |-> FALSE, committed |-> FALSE, pages |-> 0,
     pageSizes |-> 0, lookups |-> << >>, valueFailed |-> FALSE,
     received |-> << >>, lastNext |-> None, statusWrites |-> << >>,
     sentAuth |-> None, currentWrites |-> << >>]
\* received: the releases of the pages so far; lastNext: the continuation
\* reference of the newest page, kept until the total is published (107);
\* statusWrites: the values the run has stored under sync_status, in order;
\* sentAuth: the Authorization header of the newest request sent;
\* currentWrites: the values the item loop has stored under sync_current_item

\* syncLogic.ts 151
IsValidRelease(release) == release.basic_information /\ release.id # 0

\* control passes to the catch block of syncLogic.ts 277 with error e, thrown at line at
Caught(r, e, at) ==
    /\ pc' = [pc EXCEPT ![r] = "L279"]
    /\ loc' = [loc EXCEPT ![r].error = e]
    /\ obs' = [obs EXCEPT ![r].failedAt = at]

\* db 285: ROLLBACK discards what the transaction deleted and wrote
ItemsAfterRollback_kept(t) == CommittedItems(t)
ItemsAfterRollback(t) == items

\* db 284-289: a failure inside the transaction: ROLLBACK, release, rethrow
RolledBack(r, e, at) ==
    /\ items' = ItemsAfterRollback(tx[r])
    /\ stats' = stats
    /\ tx' = AfterClose(r)
    /\ Caught(r, e, at)

\* syncLogic.ts 47-49
Start(r) ==
    /\ pc[r] = "idle"
    /\ clock < MaxRuns
    /\ clock' = clock + 1
    /\ pc' = [pc EXCEPT ![r] = "L52"]
    /\ loc' = [loc EXCEPT ![r] = NoLocals]
    /\ retry' = [retry EXCEPT ![r] = NoRetry]
    /\ obs' = [obs EXCEPT ![r] = [NoHistory EXCEPT !.preItems = items, !.preStats = stats]]
    /\ UNCHANGED <<outside, settings, items, stats, env, server, tx>>

\* syncLogic.ts 52-54: the first three writes of the entry
EntryKey_totalFirst(line) ==
    CASE line = "L52" -> "sync_status" [] line = "L53" -> "sync_total_items"
      [] OTHER -> "sync_current_item"
EntryKey(line) ==
    CASE line = "L52" -> "sync_status" [] line = "L53" -> "sync_current_item"
      [] OTHER -> "sync_total_items"

EntryValue_zero(line) == "0"
EntryValue(line) == IF line = "L52" THEN "running" ELSE "0"

\* the history of a run after it stored value under key
Wrote(h, key, value) ==
    IF key = "sync_status" THEN [h EXCEPT !.statusWrites = Append(@, value)] ELSE h

EntryNext(line) == CASE line = "L52" -> "L53" [] line = "L53" -> "L54" [] OTHER -> "L55"

EntryWrite(r) ==
    /\ pc[r] \in {"L52", "L53", "L54"}
    /\ \E ok \in BOOLEAN :
          IF ok
          THEN /\ settings' = Put(EntryKey(pc[r]), EntryValue(pc[r]))
               /\ pc' = [pc EXCEPT ![r] = EntryNext(pc[r])]
               /\ obs' = [obs EXCEPT ![r] = Wrote(@, EntryKey(pc[r]), EntryValue(pc[r]))]
               /\ loc' = loc
          ELSE /\ settings' = settings
               /\ Caught(r, StoreError, pc[r])
    /\ UNCHANGED <<outside, items, stats, clock, env, server, retry, tx>>

\* syncLogic.ts 55-72: the last error is cleared, the username is checked and
\* the first page is requested (74-79)
ClearLastError(r) ==
    /\ pc[r] = "L55"
    /\ \E ok \in BOOLEAN :
          IF ok
          THEN /\ settings' = Put("sync_last_error", << >>)
               /\ obs' = obs
               /\ IF env.username = ""
                  THEN /\ pc' = [pc EXCEPT ![r] = "L62"]
                       /\ UNCHANGED <<loc, retry>>
                  ELSE /\ pc' = [pc EXCEPT ![r] = "L79"]
                       /\ loc' = [loc EXCEPT ![r].nextUrl = Some(collectionEndpoint),
                                             ![r].pageCount = 1]
                       /\ retry' = [retry EXCEPT ![r] =
                                       BeginRetry("page", createDiscogsRetryOptions)]
          ELSE /\ settings' = settings
               /\ retry' = retry
               /\ Caught(r, StoreError, "L55")
    /\ UNCHANGED <<outside, items, stats, clock, env, server, tx>>

\* syncLogic.ts 62-64: the two writes of the missing-username branch, then the throw
NoUsername(r) ==
    /\ pc[r] \in {"L62", "L63"}
    /\ \E ok \in BOOLEAN :
          IF ok
          THEN IF pc[r] = "L62"
               THEN /\ settings' = Put("sync_status", "error")
                    /\ pc' = [pc EXCEPT ![r] = "L63"]
                    /\ obs' = [obs EXCEPT ![r] = Wrote(@, "sync_status", "error")]
                    /\ loc' = loc
               ELSE /\ settings' = Put("sync_last_error", NoUsernameError.message)
                    /\ Caught(r, NoUsernameError, "L64")
          ELSE /\ settings' = settings
               /\ Caught(r, StoreError, pc[r])
    /\ UNCHANGED <<outside, items, stats, clock, env, server, retry, tx>>

\* the continuation reference a response carries, null when it carries none
ContinuationOf(response) == IF response.kind = "page" THEN response.next ELSE None

\* the releases a response lists
ReleasesOf(response) == IF response.kind = "page" THEN response.releases ELSE << >>

\* syncLogic.ts 86-101: the endpoint of the next request
NextUrl_none(response) == None
NextUrl(response) ==
    IF response.kind # "page" \/ response.next = None THEN None
    ELSE IF URLParses(response.next[1])
    THEN Some([pathname |-> response.next[1].pathname, search |-> response.next[1].search])
    ELSE None

\* syncLogic.ts 80-84
Concat_replace(allReleases, response) ==
    IF response.kind = "page" THEN response.releases ELSE allReleases
Concat(allReleases, response) ==
    IF response.kind = "page" THEN allReleases \o response.releases ELSE allReleases

\* syncLogic.ts 74-75: pageCount, which the loop only logs, is kept exactly up
\* to MaxPageCount, a value no run over MaxPages pages reaches
MaxPageCount == MaxPages + 2
Counted(n) == Min(n, MaxPageCount)

\* syncLogic.ts 78-102: the page request returned; the loop goes on with the
\* next page, or ends and the total is computed (103)
PageFetched(r) ==
    /\ pc[r] = "L79"
    /\ retry[r].phase = "returned"
    /\ LET response == retry[r].result
           nextUrl == NextUrl(response)
           all == Concat(loc[r].allReleases, response)
       IN  /\ obs' = [obs EXCEPT ![r].pages = Counted(@ + 1),
                                 ![r].pageSizes = @ + IF response.kind = "page"
                                                      THEN Len(response.releases) ELSE 0,
                                 ![r].received = @ \o ReleasesOf(response),
                                 ![r].lastNext = ContinuationOf(response)]
           /\ IF nextUrl # None
              THEN /\ loc' = [loc EXCEPT ![r].allReleases = all, ![r].nextUrl = nextUrl,
                                         ![r].pageCount = Counted(@ + 1)]
                   /\ retry' = [retry EXCEPT ![r] =
                                   BeginRetry("page", createDiscogsRetryOptions)]
                   /\ pc' = pc
              ELSE /\ loc' = [loc EXCEPT ![r].allReleases = all, ![r].nextUrl = None,
                                         ![r].totalItemsToProcess = Len(all)]
                   /\ retry' = [retry EXCEPT ![r] = NoRetry]
                   /\ pc' = [pc EXCEPT ![r] = "L107"]
    /\ UNCHANGED <<outside, settings, items, stats, clock, env, server, tx>>

\* syncLogic.ts 79: the page request threw
PageFailed(r) ==
    /\ pc[r] = "L79"
    /\ retry[r].phase = "threw"
    /\ retry' = [retry EXCEPT ![r] = NoRetry]
    /\ pc' = [pc EXCEPT ![r] = "L279"]
    /\ loc' = [loc EXCEPT ![r].error = retry[r].result]
    /\ obs' = [obs EXCEPT ![r].failedAt = "L79"]
    /\ UNCHANGED <<outside, settings, items, stats, clock, env, server, tx>>

\* syncLogic.ts 107-114: the total is published and the aggregate value requested
WriteTotal(r) ==
    /\ pc[r] = "L107"
    /\ \E ok \in BOOLEAN :
          IF ok
          THEN /\ settings' = Put("sync_total_items",
                                  NumberToString(loc[r].totalItemsToProcess))
               /\ pc' = [pc EXCEPT ![r] = "L114"]
               /\ retry' = [retry EXCEPT ![r] =
                               BeginRetry("value", createDiscogsRetryOptions)]
               /\ loc' = loc
               /\ obs' = [obs EXCEPT ![r].lastNext = None]
          ELSE /\ settings' = settings
               /\ retry' = retry
               /\ Caught(r, StoreError, "L107")
    /\ UNCHANGED <<outside, items, stats, clock, env, server, tx>>

\* syncLogic.ts 114-120: the value request returned, or threw and was logged
ValueFetched(r) ==
    /\ pc[r] = "L114"
    /\ retry[r].phase \in {"returned", "threw"}
    /\ loc' = [loc EXCEPT ![r].valueResponse =
                  IF retry[r].phase = "returned" THEN retry[r].result ELSE NullBody]
    /\ obs' = [obs EXCEPT ![r].valueFailed = (retry[r].phase = "threw")]
    /\ retry' = [retry EXCEPT ![r] = NoRetry]
    /\ pc' = [pc EXCEPT ![r] = "L140"]
    /\ UNCHANGED <<outside, settings, items, stats, clock, env, server, tx>>

\* syncLogic.ts 147-150: the loop takes the next release, or ends (252-258)
NextItem(l) ==
    IF l.processedCount < Len(l.allReleases)
    THEN [l EXCEPT !.processedCount = @ + 1]
    ELSE l

NextItemPc(l) == IF l.processedCount < Len(l.allReleases) THEN "L149" ELSE "L258"

\* db 279-281: a client is taken from the pool and BEGIN is sent
Begin(r) ==
    /\ pc[r] = "L140"
    /\ \E ok \in BOOLEAN :
          IF ok
          THEN /\ tx' = [tx EXCEPT ![r] = [NoTx EXCEPT !.open = TRUE]]
               /\ pc' = [pc EXCEPT ![r] = "L141"]
               /\ obs' = [obs EXCEPT ![r].txBegun = TRUE]
               /\ loc' = loc
          ELSE /\ tx' = tx
               /\ Caught(r, QueryError("BEGIN"), "L140")
    /\ UNCHANGED <<outside, settings, items, stats, clock, env, server, retry>>

\* syncLogic.ts 141-148: DELETE FROM collection_items, then the loop is entered;
\* the statement deletes the rows committed when it starts and returns once
\* no other transaction holds a lock on one of them
Delete(r) ==
    /\ pc[r] = "L141"
    /\ \E ok \in BOOLEAN :
          IF ok
          THEN /\ tx' = [tx EXCEPT ![r].deleted = DOMAIN items,
                                    ![r].waiting = (DOMAIN items \cap LockedRows(r) # {})]
               /\ loc' = [loc EXCEPT ![r] = NextItem([@ EXCEPT !.currentTimestamp = clock])]
               /\ pc' = [pc EXCEPT ![r] = NextItemPc(loc[r])]
               /\ UNCHANGED <<items, stats, obs>>
          ELSE RolledBack(r, QueryError("DELETE"), "L141")
    /\ UNCHANGED <<outside, settings, clock, env, server, retry>>

\* syncLogic.ts 148-149: the value stored under sync_current_item for the
\* release the loop has just taken
CurrentItemValue_index(l) == NumberToString(l.processedCount - 1)
CurrentItemValue(l) == NumberToString(l.processedCount)

\* syncLogic.ts 149-166: the progress write of an item, the validity check,
\* and the price request of a valid release
SetCurrent(r) ==
    /\ pc[r] = "L149"
    /\ DeleteReturned(r)
    /\ \E ok \in BOOLEAN :
          IF ok
          THEN /\ settings' = Put("sync_current_item", CurrentItemValue(loc[r]))
               /\ UNCHANGED <<items, stats, tx>>
               /\ IF IsValidRelease(loc[r].allReleases[loc[r].processedCount])
                  THEN /\ pc' = [pc EXCEPT ![r] = "L166"]
                       /\ retry' = [retry EXCEPT ![r] =
                                       BeginRetry("price", createDiscogsRetryOptions)]
                       /\ loc' = loc
                       /\ obs' = [obs EXCEPT ![r].currentWrites =
                                                 Append(@, CurrentItemValue(loc[r]))]
                  ELSE /\ pc' = [pc EXCEPT ![r] = NextItemPc(loc[r])]
                       /\ loc' = [loc EXCEPT ![r] = NextItem(@)]
                       /\ obs' = [obs EXCEPT ![r].lookups =
                                                 Append(@, [failed |-> FALSE, value |-> None]),
                                             ![r].currentWrites =
                                                 Append(@, CurrentItemValue(loc[r]))]
                       /\ retry' = retry
          ELSE /\ settings' = settings
               /\ retry' = retry
               /\ RolledBack(r, StoreError, "L149")
    /\ UNCHANGED <<outside, clock, env, server>>

\* client.ts 251-265: a failure whose message holds "404" is no suggestions
IsNotFound(error) == Includes(error.message, "404")

\* client.ts 251-265 and syncLogic.ts 159-202: the value and the check time of
\* the item, from the finished price request w at time now
PriceResult_stamped(w, now) ==
    IF w.phase = "returned" THEN [value |-> ResolveValue(w.result), check |-> Some(now)]
    ELSE IF IsNotFound(w.result) THEN [value |-> None, check |-> Some(now)]
    ELSE [value |-> None, check |-> Some(now)]
PriceResult(w, now) ==
    IF w.phase = "returned" THEN [value |-> ResolveValue(w.result), check |-> Some(now)]
    ELSE IF IsNotFound(w.result) THEN [value |-> None, check |-> Some(now)]
    ELSE [value |-> None, check |-> None]

\* whether the lookup ended in the catch block of syncLogic.ts 197
PriceFailed(w) == w.phase = "threw" /\ ~IsNotFound(w.result)

\* syncLogic.ts 166-204: the price request is over
PriceFetched(r) ==
    /\ pc[r] = "L166"
    /\ retry[r].phase \in {"returned", "threw"}
    /\ LET res == PriceResult(retry[r], clock)
       IN  /\ loc' = [loc EXCEPT ![r].itemSuggestedValue = res.value,
                                 ![r].lastCheckTimestamp = res.check]
           /\ obs' = [obs EXCEPT ![r].lookups =
                         Append(@, [failed |-> PriceFailed(retry[r]),
                                    value |-> IF retry[r].phase = "returned"
                                              THEN ResolveValue(retry[r].result) ELSE None])]
    /\ retry' = [retry EXCEPT ![r] = NoRetry]
    /\ pc' = [pc EXCEPT ![r] = "L205"]
    /\ UNCHANGED <<outside, settings, items, stats, clock, env, server, tx>>

\* syncLogic.ts 205-250: INSERT ... ON CONFLICT (id) DO UPDATE
InsertItem(r) ==
    /\ pc[r] = "L205"
    /\ \E ok \in BOOLEAN :
          IF ok
          THEN LET release == loc[r].allReleases[loc[r].processedCount]
               IN  /\ tx' = [tx EXCEPT ![r].written =
                                Upsert(@, release.instance_id,
                                       ItemRow(release, loc[r].itemSuggestedValue,
                                               loc[r].lastCheckTimestamp))]
                   /\ loc' = [loc EXCEPT ![r] = NextItem(@)]
                   /\ pc' = [pc EXCEPT ![r] = NextItemPc(loc[r])]
                   /\ UNCHANGED <<items, stats, obs>>
          ELSE RolledBack(r, QueryError("INSERT item"), "L205")
    /\ UNCHANGED <<outside, settings, clock, env, server, retry>>

\* valueResponse?.minimum and its siblings
ValueField(response, field) ==
    IF response.kind = "value" THEN response[field] ELSE << >>

\* syncLogic.ts 264: the count the snapshot row carries
SnapshotTotal(l) == l.totalItemsToProcess

\* syncLogic.ts 254-265: the snapshot row; its timestamp is the primary key
InsertStats(r) ==
    /\ pc[r] = "L258"
    /\ DeleteReturned(r)
    /\ \E ok \in {b \in BOOLEAN :
                    b => \A i \in 1..Len(stats) : stats[i].timestamp # loc[r].currentTimestamp} :
          IF ok
          THEN /\ tx' = [tx EXCEPT ![r].stats =
                            Append(@, StatsRow(loc[r].currentTimestamp, SnapshotTotal(loc[r]),
                                      parseValue(ValueField(loc[r].valueResponse, "minimum")),
                                      parseValue(ValueField(loc[r].valueResponse, "median")),
                                      parseValue(ValueField(loc[r].valueResponse, "maximum"))))]
               /\ pc' = [pc EXCEPT ![r] = "L283"]
               /\ UNCHANGED <<items, stats, loc, obs>>
          ELSE RolledBack(r, QueryError("INSERT stats"), "L258")
    /\ UNCHANGED <<outside, settings, clock, env, server, retry>>

\* db 283: COMMIT
Commit(r) ==
    /\ pc[r] = "L283"
    /\ \E ok \in BOOLEAN :
          IF ok
          THEN /\ items' = CommittedItems(tx[r])
               /\ stats' = stats \o tx[r].stats
               /\ tx' = AfterClose(r)
               /\ pc' = [pc EXCEPT ![r] = "L272"]
               /\ obs' = [obs EXCEPT ![r].committed = TRUE]
               /\ loc' = loc
          ELSE RolledBack(r, QueryError("COMMIT"), "L283")
    /\ UNCHANGED <<outside, settings, clock, env, server, retry>>

\* syncLogic.ts 269-276: the status goes back to idle and the run returns
SetIdle(r) ==
    /\ pc[r] = "L272"
    /\ \E ok \in BOOLEAN :
          IF ok
          THEN /\ settings' = Put("sync_status", "idle")
               /\ pc' = [pc EXCEPT ![r] = "done"]
               /\ obs' = [obs EXCEPT ![r] = [Wrote(@, "sync_status", "idle") EXCEPT
                                                !.result = "returned",
                                                !.itemCount = Len(loc[r].allReleases)]]
               /\ loc' = loc
          ELSE /\ settings' = settings
               /\ Caught(r, StoreError, "L272")
    /\ UNCHANGED <<outside, items, stats, clock, env, server, retry, tx>>

\* syncLogic.ts 282
LastErrorOf_unknown(error) == <<"Unknown sync error">>
LastErrorOf(error) == error.message

\* syncLogic.ts 285: throw error
Rethrown_wrapped(error) == Error(<<"Sync failed:">> \o error.message, error.code)
Rethrown(error) == error

\* syncLogic.ts 277-285: the catch block: two writes, then the error is thrown
\* again; a write that fails throws its own error out of the block
Handler(r) ==
    /\ pc[r] \in {"L279", "L280"}
    /\ \E ok \in BOOLEAN :
          IF ok
          THEN IF pc[r] = "L279"
               THEN /\ settings' = Put("sync_status", "error")
                    /\ pc' = [pc EXCEPT ![r] = "L280"]
                    /\ obs' = [obs EXCEPT ![r] = Wrote(@, "sync_status", "error")]
               ELSE /\ settings' = Put("sync_last_error", LastErrorOf(loc[r].error))
                    /\ pc' = [pc EXCEPT ![r] = "done"]
                    /\ obs' = [obs EXCEPT ![r].result = "raised",
                                          ![r].raised = Rethrown(loc[r].error)]
          ELSE /\ settings' = settings
               /\ pc' = [pc EXCEPT ![r] = "done"]
               /\ obs' = [obs EXCEPT ![r].result = "raised", ![r].raised = StoreError,
                                     ![r].handlerFailed = TRUE]
    /\ UNCHANGED <<outside, items, stats, clock, env, server, loc, retry, tx>>

\* sync/route.ts 10-20 and scheduler.ts 34-37: the caller takes the result
\* or the error of the run and answers or logs
Finish(r) ==
    /\ pc[r] = "done"
    /\ pc' = [pc EXCEPT ![r] = "idle"]
    /\ loc' = [loc EXCEPT ![r] = NoLocals]
    /\ obs' = [obs EXCEPT ![r] = NoHistory]
    /\ UNCHANGED <<files, flow, discogs, poll, settings, items, stats, clock, env, server,
                   retry, tx>>

Respond(r) == Finish(r) /\ sched' = sched

----------------------------------------------------------------------------
(* discogs/oauth.ts and the routes api/oauth/setup (GET) and               *)
(* api/oauth/callback (POST): the handshake that obtains the credential.   *)
(* Time is counted in ticks of five minutes.                               *)

MaxTime == 4            \* ticks of the clock in a behaviour of the handshake

\* oauth.ts 157: 15 * 60 * 1000 ms
TicketTtl == 3

\* the request tokens Discogs issues and the secret that goes with each
RequestTokens == {"rt1", "rt2"}

RequestSecretOf(token) == IF token = "rt1" THEN "rs1" ELSE "rs2"

\* the verification codes a caller may post
Verifiers == {"code", "wrong"}

\* the access token pair Discogs answers the exchange of a request token with
AccessTokensFor(token) ==
    IF token = "rt1" THEN [kind |-> "tokens", key |-> "key1", secret |-> "secret1"]
    ELSE [kind |-> "tokens", key |-> "key2", secret |-> "secret2"]

\* oauth.ts 157: the expiry written into the ticket file
ExpiresAt_now(now) == now
ExpiresAt(now) == now + TicketTtl

\* oauth.ts 37-41: storeRequestToken
storeRequestToken(token, secret, expiresAt) ==
    Upsert(files, token, [secret |-> secret, expiresAt |-> expiresAt])

\* oauth.ts 53
IsExpired(file, now) == now > file.expiresAt

\* oauth.ts 43-62: getRequestTokenSecret, the secret or null
getRequestTokenSecret(token, now) ==
    IF token \notin DOMAIN files THEN None
    ELSE IF IsExpired(files[token], now) THEN None
    ELSE Some(files[token].secret)

\* oauth.ts 53-55: an expired ticket file is unlinked by the lookup that finds it
FilesAfterLookup(token, now) ==
    IF token \in DOMAIN files /\ IsExpired(files[token], now)
    THEN [t \in DOMAIN files \ {token} |-> files[t]]
    ELSE files

\* the messages of the errors of oauth.ts
RequestTokenUnauthorized ==
    Error(<<"Unauthorized: Invalid consumer key or secret. Please check your DISCOGS_CONSUMER_KEY and DISCOGS_CONSUMER_SECRET environment variables.">>, "")

\* oauth.ts 143 and 205
OAuthHttpError(prefix, status, statusText) == Error(<<prefix, status, statusText, "-">>, "")

\* oauth.ts 153 and 215
InvalidRequestTokenResponse == Error(<<"Invalid request token response">>, "")
InvalidAccessTokenResponse == Error(<<"Invalid access token response">>, "")

\* writeFileSync failing (oauth.ts 40)
FileError == Error(<<"ENOSPC: no space left on device, write">>, "ENOSPC")

\* oauth.ts 250
NoTokensForRequest == Error(<<"No OAuth tokens found. Please complete OAuth flow first.">>, "")

\* no handler of the OAuth routes is running
NoFlow ==
    [pc |-> "idle", op |-> "none", requestToken |-> "", verifier |-> "",
     secret |-> None, w |-> NoRetry, tokens |-> None,
     status |-> 0, response |-> "none", lookedUp |-> FALSE,
     hadTicket |-> FALSE, ticketAge |-> 0, usedBefore |-> FALSE,
     settingsAtStart |-> EmptyTable,
     exchangeSent |-> FALSE, exchanged |-> FALSE, sentAfterExchange |-> FALSE,
     storeCalled |-> FALSE, storedBeforeExchange |-> FALSE]
\* status, response: what the handler answered; the fields after them are
\* history: what the lookup found, the settings when the handler began, and
\* the requests and writes of getAccessToken

\* the request tokens issued with the time of issue, and those exchanged for
\* a credential
NoIssuer == [issued |-> EmptyTable, used |-> {}, endless |-> FALSE]

\* the handler answers and ends
Answer(f, status, response) ==
    [f EXCEPT !.pc = "idle", !.status = status, !.response = response, !.w = NoRetry]

\* setup/route.ts 4-8: GET begins: new DiscogsOAuth() and the read of the tokens
SetupStart ==
    /\ flow.pc = "idle"
    /\ flow' = IF env.consumer
               THEN [NoFlow EXCEPT !.pc = "setup8", !.op = "setup",
                                   !.settingsAtStart = settings]
               ELSE Answer([NoFlow EXCEPT !.op = "setup", !.settingsAtStart = settings],
                           500, "Failed to initialize OAuth setup")
    /\ UNCHANGED <<settings, items, stats, clock, env, server, pc, loc, retry, tx, obs, poll,
                   files, discogs, sched>>

\* setup/route.ts 8-16: the tokens are read (a read that fails reads as none,
\* oauth.ts 97-100); with tokens the handler answers, without it asks for a
\* request token
SetupTokens ==
    /\ flow.pc = "setup8"
    /\ \E ok \in BOOLEAN :
          IF ok /\ getStoredTokens # None
          THEN flow' = Answer(flow, 200, "already_authenticated")
          ELSE flow' = [flow EXCEPT !.pc = "setup16",
                                    !.w = BeginRetry("requestToken", createDiscogsRetryOptions)]
    /\ UNCHANGED <<settings, items, stats, clock, env, server, pc, loc, retry, tx, obs, poll,
                   files, discogs, sched>>

\* the answers of Discogs to a request that fail the operation in progress
OAuthFailures(prefix) ==
    FetchFailures
    \cup {OAuthHttpError(prefix, "500", "Internal Server Error")}

\* oauth.ts 114-163: one invocation of the operation of getRequestToken
RequestTokenAttempt ==
    /\ flow.pc = "setup16"
    /\ flow.w.phase = "attempt"
    /\ \/ \E e \in OAuthFailures("Failed to get request token:")
               \cup {RequestTokenUnauthorized, InvalidRequestTokenResponse} :
             /\ flow' = [flow EXCEPT !.w = AfterAttempt(@, Threw(e, TRUE))]
             /\ UNCHANGED <<files, discogs>>
       \/ \E token \in RequestTokens \ DOMAIN discogs.issued, stored \in BOOLEAN :
             /\ discogs' = [discogs EXCEPT !.issued = Upsert(@, token, clock)]
             /\ IF stored
                THEN /\ files' = storeRequestToken(token, RequestSecretOf(token),
                                                   ExpiresAt(clock))
                     /\ flow' = [flow EXCEPT !.w = AfterAttempt(@,
                                    Returned([kind |-> "ticket", token |-> token], TRUE))]
                ELSE /\ files' = files
                     /\ flow' = [flow EXCEPT !.w = AfterAttempt(@, Threw(FileError, TRUE))]
    /\ UNCHANGED <<settings, items, stats, clock, env, server, pc, loc, retry, tx, obs, poll, sched>>

\* setup/route.ts 16-39: getRequestToken returned or threw
SetupDone ==
    /\ flow.pc = "setup16"
    /\ flow.w.phase \in {"returned", "threw"}
    /\ flow' = IF flow.w.phase = "returned"
               THEN [Answer(flow, 200, "auth_required")
                        EXCEPT !.requestToken = flow.w.result.token]
               ELSE Answer(flow, 500, "Failed to initialize OAuth setup")
    /\ UNCHANGED <<settings, items, stats, clock, env, server, pc, loc, retry, tx, obs, poll,
                   files, discogs, sched>>

\* the time since the token was issued, 0 for a token never issued
AgeOf(token) == IF token \in DOMAIN discogs.issued THEN clock - discogs.issued[token] ELSE 0

\* callback/route.ts 32-68: POST begins with a verifier and a request token:
\* new DiscogsOAuth(), the lookup of the ticket, and either the answer 400 or
\* the call of getAccessToken (oauth.ts 170-176)
CallbackStart ==
    /\ flow.pc = "idle"
    /\ \E token \in RequestTokens, verifier \in Verifiers :
          LET begun == [NoFlow EXCEPT !.op = "callback", !.requestToken = token,
                                      !.verifier = verifier,
                                      !.settingsAtStart = settings]
              secret == getRequestTokenSecret(token, clock)
              looked == [begun EXCEPT !.secret = secret, !.lookedUp = TRUE,
                                      !.hadTicket = token \in DOMAIN files,
                                      !.usedBefore = token \in discogs.used,
                                      !.ticketAge = AgeOf(token)]
          IN  IF ~env.consumer
              THEN /\ flow' = Answer(begun, 500, "Failed to complete OAuth authentication")
                   /\ files' = files
              ELSE /\ files' = FilesAfterLookup(token, clock)
                   /\ flow' = IF secret = None
                              THEN Answer(looked, 400, "Request token not found or expired")
                              ELSE [looked EXCEPT !.pc = "oauth176",
                                       !.w = BeginRetry("exchange", createDiscogsRetryOptions)]
    /\ UNCHANGED <<settings, items, stats, clock, env, server, pc, loc, retry, tx, obs, poll,
                   discogs, sched>>

\* Discogs accepts an exchange for a token it issued and has not exchanged
\* yet, signed with the secret of the token and carrying the right code
Exchangeable(token, secret, verifier) ==
    /\ token \in DOMAIN discogs.issued
    /\ token \notin discogs.used
    /\ secret = Some(RequestSecretOf(token))
    /\ verifier = "code"

\* oauth.ts 176-223: one invocation of the operation of the exchange
ExchangeAttempt ==
    /\ flow.pc = "oauth176"
    /\ flow.w.phase = "attempt"
    /\ LET sent == [flow EXCEPT !.exchangeSent = TRUE,
                                !.sentAfterExchange = @ \/ flow.exchanged]
       IN  \/ \E e \in OAuthFailures("Failed to get access token:")
                    \cup {InvalidAccessTokenResponse} :
                 /\ flow' = [sent EXCEPT !.w = AfterAttempt(@, Threw(e, TRUE))]
                 /\ discogs' = discogs
           \/ /\ ~Exchangeable(flow.requestToken, flow.secret, flow.verifier)
              /\ flow' = [sent EXCEPT !.w = AfterAttempt(@,
                             Threw(OAuthHttpError("Failed to get access token:",
                                                  "401", "Unauthorized"), TRUE))]
              /\ discogs' = discogs
           \/ /\ Exchangeable(flow.requestToken, flow.secret, flow.verifier)
              /\ flow' = [sent EXCEPT !.w = AfterAttempt(@,
                             Returned(AccessTokensFor(flow.requestToken), TRUE)),
                                      !.exchanged = TRUE]
              /\ discogs' = [discogs EXCEPT !.used = @ \cup {flow.requestToken}]
    /\ UNCHANGED <<settings, items, stats, clock, env, server, pc, loc, retry, tx, obs, poll,
                   files, sched>>

\* oauth.ts 176 and 226, callback/route.ts 87-95: the exchange returned the
\* tokens and the storage begins, or it threw and the handler answers 500
Exchanged ==
    /\ flow.pc = "oauth176"
    /\ flow.w.phase \in {"returned", "threw"}
    /\ flow' = IF flow.w.phase = "returned"
               THEN [flow EXCEPT !.pc = "oauth226",
                                 !.tokens = Some(flow.w.result),
                                 !.w = BeginRetry("store", createDiscogsRetryOptions)]
               ELSE Answer(flow, 500, "Failed to complete OAuth authentication")
    /\ UNCHANGED <<settings, items, stats, clock, env, server, pc, loc, retry, tx, obs, poll,
                   files, discogs, sched>>

\* oauth.ts 103-111: storeTokens: the key row, then the secret row
StoredKey(tokens) == Put("oauth_token", tokens.key)

StoredPair(tokens) ==
    [k \in DOMAIN settings \cup {"oauth_token", "oauth_token_secret"} |->
        CASE k = "oauth_token" -> tokens.key
          [] k = "oauth_token_secret" -> tokens.secret
          [] OTHER -> settings[k]]

\* oauth.ts 226-228: what the withRetry of the storage runs again after a
\* failure: the storage, not the exchange of 176-223
StorageRetryAt_exchange == "oauth176"
StorageRetryAt == "oauth226"

\* oauth.ts 226-228: one invocation of the operation of the storage: both
\* writes, or the first or the second of them failing
StoreAttempt ==
    /\ flow.pc = "oauth226"
    /\ flow.w.phase = "attempt"
    /\ LET called == [flow EXCEPT !.storeCalled = TRUE,
                                  !.storedBeforeExchange = @ \/ ~flow.exchanged]
       IN  \/ /\ settings' = StoredPair(flow.tokens[1])
              /\ flow' = [called EXCEPT !.w = AfterAttempt(@, Returned(NullBody, FALSE))]
           \/ /\ settings' = settings
              /\ flow' = [called EXCEPT !.w = AfterAttempt(@, Threw(StoreError, FALSE)),
                                        !.pc = StorageRetryAt]
           \/ /\ settings' = StoredKey(flow.tokens[1])
              /\ flow' = [called EXCEPT !.w = AfterAttempt(@, Threw(StoreError, FALSE)),
                                        !.pc = StorageRetryAt]
    /\ UNCHANGED <<items, stats, clock, env, server, pc, loc, retry, tx, obs, poll,
                   files, discogs, sched>>

\* oauth.ts 226-230, callback/route.ts 68-71 and 87-95: the storage returned
\* and the identity is requested, or it threw and the handler answers 500
Stored ==
    /\ flow.pc = "oauth226"
    /\ flow.w.phase \in {"returned", "threw"}
    /\ flow' = IF flow.w.phase = "returned"
               THEN [flow EXCEPT !.pc = "callback71",
                                 !.w = BeginRetry("identity", createDiscogsRetryOptions)]
               ELSE Answer(flow, 500, "Failed to complete OAuth authentication")
    /\ UNCHANGED <<settings, items, stats, clock, env, server, pc, loc, retry, tx, obs, poll,
                   files, discogs, sched>>

\* oauth.ts 247-280: one invocation of the operation of makeAuthenticatedRequest
IdentityAttempt ==
    /\ flow.pc = "callback71"
    /\ flow.w.phase = "attempt"
    /\ \E outcome \in
            IF getStoredTokens = None THEN {Threw(NoTokensForRequest, FALSE)}
            ELSE {Returned([kind |-> "identity"], TRUE),
                  Threw(Error(<<"HTTP error! status:", "500", "-">>, ""), TRUE)}
                 \cup {Threw(e, TRUE) : e \in FetchFailures} :
          flow' = [flow EXCEPT !.w = AfterAttempt(@, outcome)]
    /\ UNCHANGED <<settings, items, stats, clock, env, server, pc, loc, retry, tx, obs, poll,
                   files, discogs, sched>>

\* callback/route.ts 70-86: the handler answers success with or without the identity
Identified ==
    /\ flow.pc = "callback71"
    /\ flow.w.phase \in {"returned", "threw"}
    /\ flow' = Answer(flow, 200, IF flow.w.phase = "returned"
                                 THEN "OAuth authentication completed successfully"
                                 ELSE "OAuth tokens stored, but failed to verify identity")
    /\ UNCHANGED <<settings, items, stats, clock, env, server, pc, loc, retry, tx, obs, poll,
                   files, discogs, sched>>

\* five minutes pass
Tick ==
    /\ clock < MaxTime
    /\ clock' = clock + 1
    /\ UNCHANGED <<settings, items, stats, env, server, pc, loc, retry, tx, obs, poll,
                   files, flow, discogs, sched>>

----------------------------------------------------------------------------
(* scheduler.ts: setupScheduler and the callback it arms.                  *)

\* scheduler.ts 4
DEFAULT_CRON_SCHEDULE == "0 0 * * *"

\* the values of SYNC_CRON_SCHEDULE; the empty string is the unset variable
Schedules == {"", "*/5 * * * *", "61 * * * *", "every day"}

\* cron.validate of node-cron on the expressions above
validate(expression) == expression \in {"0 0 * * *", "*/5 * * * *"}

\* scheduler.ts 9
effectiveCronSchedule(schedule) == IF schedule = "" THEN DEFAULT_CRON_SCHEDULE ELSE schedule

\* the module before setupScheduler is called
NoScheduler(schedule) ==
    [schedule |-> schedule, called |-> FALSE, armed |-> FALSE, errors |-> 0,
     failures |-> 0, raised |-> FALSE]
\* errors: the console.error calls of setupScheduler and of the callback;
\* failures: the runs of the callback that threw; raised: an error left
\* setupScheduler or the callback

\* the module after setupScheduler armed the timer with the default schedule
Scheduled == [NoScheduler("") EXCEPT !.called = TRUE, !.armed = TRUE]

\* scheduler.ts 6-46: setupScheduler
SetupScheduler ==
    /\ ~sched.called
    /\ sched' = IF validate(effectiveCronSchedule(sched.schedule))
                THEN [sched EXCEPT !.called = TRUE, !.armed = TRUE]
                ELSE [sched EXCEPT !.called = TRUE, !.errors = @ + 1]
    /\ UNCHANGED <<settings, items, stats, clock, env, server, pc, loc, retry, tx, obs, poll,
                   files, flow, discogs>>

\* scheduler.ts 29-33: the armed timer fires and the callback calls runCollectionSync
TimerFires ==
    /\ sched.armed
    /\ Start("timer")

\* scheduler.ts 32-37: what the callback does with the end of the run: it
\* logs the result, or catches the error and logs it
CallbackOutcome_rethrow(result) == IF result = "raised" THEN "thrown" ELSE "logged"
CallbackOutcome(result) == IF result = "raised" THEN "caught" ELSE "logged"

\* scheduler.ts 33-37: the run of the callback has ended
CallbackEnds ==
    /\ Finish("timer")
    /\ sched' = [sched EXCEPT
                    !.failures = @ + IF obs["timer"].result = "raised" THEN 1 ELSE 0,
                    !.errors = @ + IF CallbackOutcome(obs["timer"].result) = "caught"
                                   THEN 1 ELSE 0,
                    !.raised = @ \/ CallbackOutcome(obs["timer"].result) = "thrown"]

----------------------------------------------------------------------------
(* api/collection/sync/status/route.ts GET: the poller of the progress     *)
(* keys.  Each of its four getSetting calls is an await of its own.        *)

\* every variable but poll
program == <<settings, items, stats, clock, env, server, pc, loc, retry, tx, obs,
             files, flow, discogs, sched>>

DecimalDigits == <<"0", "1", "2", "3", "4", "5", "6", "7", "8", "9">>

\* the characters of Number.prototype.toString of a natural number
RECURSIVE NatToChars(_)
NatToChars(n) ==
    IF n < 10 THEN <<DecimalDigits[n + 1]>>
    ELSE NatToChars(n \div 10) \o <<DecimalDigits[(n % 10) + 1]>>

\* the characters of a value stored under a counter key: the values a run
\* writes (syncLogic.ts 53, 54, 107, 149) and the other texts a row can hold
Characters(str) ==
    CASE str = "" -> << >>
      [] str = "abc" -> <<"a", "b", "c">>
      [] str = "2abc" -> <<"2", "a", "b", "c">>
      [] str = "-1" -> <<"-", "1">>
      [] OTHER -> NatToChars(CHOOSE n \in 0..(MaxPages * MaxPageLen) : ToString(n) = str)

\* the white space parseInt skips
RECURSIVE TrimStart(_)
TrimStart(chars) ==
    IF chars # << >> /\ Head(chars) = " " THEN TrimStart(Tail(chars)) ELSE chars

\* status/route.ts 18-19: parseInt(str, 10): an optional sign and the longest
\* run of digits after it, whatever follows; NaN (None) when there is no digit
parseInt(str) ==
    LET trimmed == TrimStart(Characters(str))
        signed == trimmed # << >> /\ Head(trimmed) \in {"+", "-"}
        digits == DigitRun(IF signed THEN Tail(trimmed) ELSE trimmed, 1)
    IN  IF digits = << >> THEN None
        ELSE IF signed /\ Head(trimmed) = "-" THEN Some(0 - DigitsToNat(digits))
        ELSE Some(DigitsToNat(digits))

\* status/route.ts 13-15: (await getSetting(key)) || fallback
OrDefault(row, fallback) == IF row = None \/ row[1] = "" THEN fallback ELSE row[1]

\* status/route.ts 16: (await getSetting("sync_last_error")) || null
OrNull(row) == IF row = None \/ row[1] = << >> THEN None ELSE row

\* status/route.ts 21
validStatus_asStored(status) == status
validStatus(status) == IF status \in {"idle", "running", "error"} THEN status ELSE "unknown"

\* status/route.ts 25-26: isNaN(n) ? 0 : n
NaNToZero(n) == IF n = None THEN 0 ELSE n[1]

\* status/route.ts 23-30
StatusResponse(status, currentItemStr, totalItemsStr, lastError) ==
    [code |-> 200, status |-> validStatus(status),
     currentItem |-> NaNToZero(parseInt(currentItemStr)),
     totalItems |-> NaNToZero(parseInt(totalItemsStr)),
     lastError |-> lastError]

\* status/route.ts 31-40
StatusFailure == [code |-> 500, status |-> "", currentItem |-> 0, totalItems |-> 0,
                  lastError |-> Some(<<"Failed to fetch sync status">>)]

NoPoll == [pc |-> "idle", status |-> "", currentItemStr |-> "", totalItemsStr |-> "",
           response |-> None]

\* status/route.ts 11: a poller sends GET
PollStart ==
    /\ poll.pc = "idle"
    /\ poll' = [NoPoll EXCEPT !.pc = "g13"]
    /\ UNCHANGED program

\* status/route.ts 13-30: one getSetting returns or throws; after the fourth
\* the response is built
StatusRead ==
    /\ poll.pc \in {"g13", "g14", "g15", "g16"}
    /\ \E ok \in BOOLEAN :
          poll' = IF ~ok THEN [poll EXCEPT !.pc = "answered", !.response = Some(StatusFailure)]
                  ELSE CASE poll.pc = "g13" ->
                              [poll EXCEPT !.pc = "g14",
                                           !.status = OrDefault(getSetting("sync_status"),
                                                                "unknown")]
                         [] poll.pc = "g14" ->
                              [poll EXCEPT !.pc = "g15",
                                           !.currentItemStr =
                                               OrDefault(getSetting("sync_current_item"), "0")]
                         [] poll.pc = "g15" ->
                              [poll EXCEPT !.pc = "g16",
                                           !.totalItemsStr =
                                               OrDefault(getSetting("sync_total_items"), "0")]
                         [] OTHER ->
                              [poll EXCEPT !.pc = "answered",
                                           !.response =
                                               Some(StatusResponse(
                                                      poll.status, poll.currentItemStr,
                                                      poll.totalItemsStr,
                                                      OrNull(getSetting("sync_last_error"))))]
    /\ UNCHANGED program

\* the poller has the response
PollAnswered ==
    /\ poll.pc = "answered"
    /\ poll' = NoPoll
    /\ UNCHANGED program

----------------------------------------------------------------------------
(* The state before any handshake and any poll.                            *)

\* nothing of the handshake has happened and the timer is armed
Quiet ==
    /\ files = EmptyTable
    /\ flow = NoFlow
    /\ discogs = NoIssuer
    /\ sched = Scheduled
    /\ poll = NoPoll

----------------------------------------------------------------------------
(* The specification of the runs started one after the other.              *)

TokenRows == [k \in {"oauth_token", "oauth_token_secret"} |->
                 IF k = "oauth_token" THEN "key1" ELSE "secret1"]

\* the database of a new installation, and the one an earlier sync of one
\* item (instance 3) has left
FreshDb == [settings |-> EmptyTable, items |-> EmptyTable, stats |-> << >>]

SyncedDb ==
    [settings |-> [k \in {"sync_status", "sync_current_item", "sync_total_items",
                          "sync_last_error"} |->
                      CASE k = "sync_status" -> "idle"
                        [] k = "sync_last_error" -> << >>
                        [] OTHER -> "1"],
     items |-> [k \in {3} |-> [id |-> 3, release_id |-> 14,
                               suggested_value |-> Some(7), last_value_check |-> Some(0)]],
     stats |-> <<StatsRow(0, 1, None, None, None)>>]

WithTokens(table) ==
    [k \in DOMAIN table \cup DOMAIN TokenRows |->
        IF k \in DOMAIN TokenRows THEN TokenRows[k] ELSE table[k]]

Init ==
    /\ \E db \in {FreshDb, SyncedDb}, authorised \in BOOLEAN :
          /\ settings = IF authorised THEN WithTokens(db.settings) ELSE db.settings
          /\ items = db.items
          /\ stats = db.stats
    /\ clock = 0
    /\ env \in [username : {"", "u"}, consumer : BOOLEAN]
    /\ server \in ServerCollections
    /\ pc = [r \in Runs |-> "idle"]
    /\ loc = [r \in Runs |-> NoLocals]
    /\ retry = [r \in Runs |-> NoRetry]
    /\ tx = [r \in Runs |-> NoTx]
    /\ obs = [r \in Runs |-> NoHistory]
    /\ Quiet

\* no other trigger has a run in progress
Alone(r) == \A o \in Runs \ {r} : pc[o] = "idle"

StartAlone(r) == Alone(r) /\ Start(r)

Next ==
    \E r \in Runs :
        \/ StartAlone(r)
        \/ EntryWrite(r)
        \/ ClearLastError(r)
        \/ NoUsername(r)
        \/ Attempt(r)
        \/ PageFetched(r)
        \/ PageFailed(r)
        \/ WriteTotal(r)
        \/ ValueFetched(r)
        \/ Begin(r)
        \/ Delete(r)
        \/ SetCurrent(r)
        \/ PriceFetched(r)
        \/ InsertItem(r)
        \/ InsertStats(r)
        \/ Commit(r)
        \/ SetIdle(r)
        \/ Handler(r)
        \/ Respond(r)

Spec == Init /\ [][Next]_vars

----------------------------------------------------------------------------
(* withRetry on its own: any policy, any operation.                        *)

StandalonePolicies ==
    [maxRetries : 0..MaxRetriesBound,
     baseDelay : {Ms(1000), Ms(6000)},
     maxDelay : {Ms(4000), Ms(30000)},
     backoffMultiplier : {<<2, 1>>, <<3, 2>>},
     retryCondition : {"default", "discogs"}]

\* retryUtils.ts 27: a caller invokes withRetry with a policy of its own
Call(r) ==
    /\ pc[r] = "standalone"
    /\ retry[r].phase \in {"returned", "threw"}
    /\ \E opts \in StandalonePolicies :
          retry' = [retry EXCEPT ![r] = BeginRetry("standalone", opts)]
    /\ UNCHANGED <<outside, settings, items, stats, clock, env, server, pc, loc, tx, obs>>

InitRetry ==
    /\ settings = EmptyTable
    /\ items = EmptyTable
    /\ stats = << >>
    /\ clock = 0
    /\ env = [username |-> "u", consumer |-> TRUE]
    /\ server = << >>
    /\ pc = [r \in Runs |-> IF r = "http" THEN "standalone" ELSE "idle"]
    /\ loc = [r \in Runs |-> NoLocals]
    /\ \E opts \in StandalonePolicies :
          retry = [r \in Runs |-> IF r = "http" THEN BeginRetry("standalone", opts)
                                  ELSE NoRetry]
    /\ tx = [r \in Runs |-> NoTx]
    /\ obs = [r \in Runs |-> NoHistory]
    /\ Quiet

NextRetry == \E r \in Runs : Attempt(r) \/ Call(r)

SpecRetry == InitRetry /\ [][NextRetry]_vars

----------------------------------------------------------------------------
(* Properties of a run.                                                    *)

Finished(r) == pc[r] = "done"

Status == IF "sync_status" \in DOMAIN settings THEN settings["sync_status"] ELSE ""

TablesAsBefore(r) == items = obs[r].preItems /\ stats = obs[r].preStats

\* the rows of collection_items
RowCount == Cardinality(DOMAIN items)

\* the record at position i is valid and no later valid record has its instance id
LastWriter(all, i) ==
    /\ IsValidRelease(all[i])
    /\ \A j \in (i + 1)..Len(all) :
          IsValidRelease(all[j]) => all[j].instance_id # all[i].instance_id

AllValidAndDistinct(all) ==
    \A i \in 1..Len(all) : LastWriter(all, i)

\* C1: whenever no run is in progress, the newest snapshot row counts the rows
\* of collection_items
C1_SnapshotCountsRows ==
    (\A r \in Runs : pc[r] \in {"idle", "done"}) /\ stats # << >>
        => stats[Len(stats)].total_items = RowCount

\* the statements of the transaction that C2 names, and the error of each
TxStatementLines == {"L141", "L205", "L258"}

StatementError(line) ==
    CASE line = "L141" -> QueryError("DELETE")
      [] line = "L205" -> QueryError("INSERT item")
      [] OTHER -> QueryError("INSERT stats")

C4_SuccessfulRunReplaces ==
    \A r \in Runs :
        Finished(r) /\ obs[r].result = "returned" /\ AllValidAndDistinct(loc[r].allReleases)
            => /\ DOMAIN items = {loc[r].allReleases[i].instance_id :
                                    i \in 1..Len(loc[r].allReleases)}
               /\ \A i \in 1..Len(loc[r].allReleases) :
                     items[loc[r].allReleases[i].instance_id].release_id
                        = loc[r].allReleases[i].id
               /\ RowCount = obs[r].pageSizes
               /\ settings["sync_total_items"] = NumberToString(obs[r].pageSizes)
               /\ Len(stats) = Len(obs[r].preStats) + 1
               /\ SubSeq(stats, 1, Len(obs[r].preStats)) = obs[r].preStats
               /\ Status = "idle"

C4_Witness ==
    \E r \in Runs :
        /\ Finished(r)
        /\ obs[r].result = "returned"
        /\ AllValidAndDistinct(loc[r].allReleases)
        /\ obs[r].pages = 2
        /\ Len(loc[r].allReleases) = 2
        /\ obs[r].preItems # EmptyTable

\* C5: a run that raises has left both tables as they were and has not committed
C5_RaisingRunLeavesTables ==
    \A r \in Runs :
        Finished(r) /\ obs[r].result = "raised"
            => TablesAsBefore(r) /\ ~obs[r].committed

NoTokenRows == {"oauth_token", "oauth_token_secret"} \cap DOMAIN settings = {}

Unconfigured == env.username = "" \/ ~env.consumer \/ NoTokenRows

ConfigurationMessages ==
    {NoUsernameError.message, NoTokensError.message, NoConsumerError.message}

C9_ValueFailureIsNotFatal ==
    \A r \in Runs :
        Finished(r) /\ obs[r].result = "returned" /\ obs[r].valueFailed
            => /\ Status = "idle"
               /\ stats # << >>
               /\ stats[Len(stats)] = StatsRow(loc[r].currentTimestamp,
                                              Len(loc[r].allReleases), None, None, None)
               /\ \A i \in 1..Len(loc[r].allReleases) :
                     IsValidRelease(loc[r].allReleases[i])
                        => loc[r].allReleases[i].instance_id \in DOMAIN items

C9_Witness ==
    \E r \in Runs :
        /\ Finished(r)
        /\ obs[r].result = "returned"
        /\ obs[r].valueFailed
        /\ Len(loc[r].allReleases) = 2

\* C10: withRetry calls its operation at most maxRetries + 1 times
C10_AtMostMaxRetriesPlusOne ==
    \A r \in Runs : retry[r].calls <= retry[r].opts.maxRetries + 1

C10_Witness ==
    \E r \in Runs :
        /\ retry[r].phase = "threw"
        /\ retry[r].opts.maxRetries = MaxRetriesBound
        /\ retry[r].calls = MaxRetriesBound + 1
        /\ retry[r].result.name = "RetryError"

----------------------------------------------------------------------------
(* Properties of withRetry.                                                *)

\* the call sleeps, or has slept, after a failed attempt
Sleeping(r) == retry[r].phase = "attempt" /\ retry[r].slept >= 1

\* C11: after a failed attempt whose 429 response named S seconds in its
\* Retry-After header, the delay before the next attempt is at least S seconds
C11_RetryAfterRespected ==
    \A r \in Runs :
        Sleeping(r) /\ retry[r].retryAfter # None
            => retry[r].actualDelay >= Ms(1000 * retry[r].retryAfter[1])

\* C12: a call that ended on an error its predicate does not retry threw that
\* error itself, on whichever attempt it came
C12_NotRetryableRethrown ==
    \A r \in Runs :
        retry[r].phase = "threw" /\ ~retryCondition(retry[r].opts, retry[r].lastError)
            => retry[r].result.name # "RetryError" /\ retry[r].result = retry[r].lastError

\* C13: a call whose maxRetries + 1 attempts all failed with retryable errors
\* threw a RetryError that carries maxRetries + 1 attempts and the error of
\* the last attempt
C13_ExhaustionRaisesRetryError ==
    \A r \in Runs :
        /\ retry[r].phase = "threw"
        /\ retry[r].calls = retry[r].opts.maxRetries + 1
        /\ retryCondition(retry[r].opts, retry[r].lastError)
        => /\ retry[r].result.name = "RetryError"
           /\ retry[r].result.attempts = retry[r].opts.maxRetries + 1
           /\ retry[r].result.lastError = retry[r].lastError

C13_Witness ==
    \E r \in Runs :
        /\ retry[r].phase = "threw"
        /\ retry[r].opts.maxRetries = MaxRetriesBound
        /\ retry[r].calls = MaxRetriesBound + 1
        /\ retry[r].slept = MaxRetriesBound
        /\ retryCondition(retry[r].opts, retry[r].lastError)
        /\ retry[r].result.name = "RetryError"
        /\ retry[r].result.lastError = HttpError("500", "Internal Server Error", << >>)

\* baseDelay * backoffMultiplier^(n-1), for n >= 1
RECURSIVE Backoff(_, _)
Backoff(opts, n) ==
    IF n <= 1 THEN opts.baseDelay
    ELSE (Backoff(opts, n - 1) * opts.backoffMultiplier[1]) \div opts.backoffMultiplier[2]

\* C14: the delay slept after the n-th failed attempt is
\* min(baseDelay * backoffMultiplier^(n-1) + jitter, maxDelay) for some
\* jitter >= 0: it is at most maxDelay, and at least the backoff when below it
C14_DelayIsCappedBackoff ==
    \A r \in Runs :
        Sleeping(r)
            => /\ retry[r].actualDelay <= retry[r].opts.maxDelay
               /\ retry[r].actualDelay < retry[r].opts.maxDelay
                    => retry[r].actualDelay >= Backoff(retry[r].opts, retry[r].slept)

----------------------------------------------------------------------------
(* Properties of the pagination.                                           *)

\* the run has an invocation in progress
InRun(r) == pc[r] \notin {"idle", "L52", "L53", "L54", "L55", "L62", "L63"}

\* the page loop of the run has ended without a failure
PagesDone(r) ==
    InRun(r) /\ pc[r] # "L79" /\ obs[r].pages >= 1 /\ obs[r].failedAt # "L79"

\* C15: the list the pagination builds is the releases of the responses, in
\* the order the responses arrived and in the order each lists them
C15_ListIsConcatenation ==
    \A r \in Runs :
        InRun(r) => /\ loc[r].allReleases = obs[r].received
                    /\ loc[r].allReleases = SubSeq(server, 1, obs[r].pageSizes)

C15_Witness ==
    \E r \in Runs :
        /\ PagesDone(r)
        /\ obs[r].pages = 2
        /\ loc[r].totalItemsToProcess = 2
        /\ loc[r].allReleases = <<RelA, RelB>>

\* urlObject.pathname + urlObject.search (syncLogic.ts 94)
PathAndQuery(ref) == [pathname |-> ref.pathname, search |-> ref.search]

\* C16: the first request goes to the start endpoint and every later one to
\* the path and query of the continuation reference of the page before it;
\* there is one request per page; the loop ends at the first page without a
\* continuation reference or with one that does not parse, and a reference
\* that does not parse fails nothing
C16_PaginationFollowsReferences ==
    \A r \in Runs :
        /\ pc[r] = "L79" /\ obs[r].pages = 0
              => loc[r].nextUrl = Some(collectionEndpoint) /\ loc[r].pageCount = 1
        /\ pc[r] = "L79" /\ obs[r].pages >= 1
              => /\ obs[r].lastNext # None
                 /\ URLParses(obs[r].lastNext[1])
                 /\ loc[r].nextUrl = Some(PathAndQuery(obs[r].lastNext[1]))
                 /\ loc[r].pageCount = obs[r].pages + 1
        /\ PagesDone(r)
              => /\ obs[r].lastNext = None \/ ~URLParses(obs[r].lastNext[1])
                 /\ loc[r].pageCount = obs[r].pages
                 /\ loc[r].nextUrl = None
                 /\ loc[r].totalItemsToProcess = obs[r].pageSizes
                 /\ pc[r] = "L107" => obs[r].failedAt = ""

C16_Witness ==
    \E r \in Runs :
        /\ pc[r] = "L107"
        /\ obs[r].pages = 1
        /\ obs[r].lastNext # None
        /\ ~URLParses(obs[r].lastNext[1])
        /\ Len(loc[r].allReleases) = 1
        /\ obs[r].failedAt = ""

----------------------------------------------------------------------------
(* One price lookup, with every suggestion map and every kind of failure:  *)
(* a run that has fetched one release and opened its transaction is about  *)
(* to request the suggestions (syncLogic.ts 166).                          *)

LookupLocals ==
    [NoLocals EXCEPT !.allReleases = <<RelA>>, !.pageCount = 1,
                     !.totalItemsToProcess = 1, !.processedCount = 1,
                     !.currentTimestamp = 1]

LookupSettings ==
    WithTokens([k \in {"sync_status", "sync_current_item", "sync_total_items",
                       "sync_last_error"} |->
                   CASE k = "sync_status" -> "running"
                     [] k = "sync_last_error" -> << >>
                     [] OTHER -> "1"])

InitLookup ==
    /\ \E db \in {FreshDb, SyncedDb} :
          /\ items = db.items
          /\ stats = db.stats
          /\ tx = [r \in Runs |-> IF r = "http"
                                  THEN [NoTx EXCEPT !.open = TRUE, !.deleted = DOMAIN db.items]
                                  ELSE NoTx]
          /\ obs = [r \in Runs |->
                       IF r = "http"
                       THEN [NoHistory EXCEPT !.preItems = db.items, !.preStats = db.stats,
                                              !.requestSent = TRUE, !.txBegun = TRUE,
                                        !.sentAuth = Some(getAuthHeaders(
                                                       [key |-> TokenRows["oauth_token"],
                                                        secret |-> TokenRows["oauth_token_secret"]])),
                                              !.pages = 1, !.pageSizes = 1,
                                              !.received = <<RelA>>,
                                              !.statusWrites = <<"running">>,
                                              !.currentWrites = <<"1">>]
                       ELSE NoHistory]
    /\ settings = LookupSettings
    /\ Quiet
    /\ clock = 1
    /\ env = [username |-> "u", consumer |-> TRUE]
    /\ server = <<RelA>>
    /\ pc = [r \in Runs |-> IF r = "http" THEN "L166" ELSE "idle"]
    /\ loc = [r \in Runs |-> IF r = "http" THEN LookupLocals ELSE NoLocals]
    /\ retry = [r \in Runs |-> IF r = "http"
                               THEN BeginRetry("lookup", createDiscogsRetryOptions)
                               ELSE NoRetry]

NextLookup == \E r \in Runs : Attempt(r) \/ PriceFetched(r) \/ InsertItem(r)

SpecLookup == InitLookup /\ [][NextLookup]_vars

\* the order of preference the resolver is specified with
PreferredConditions ==
    <<"Mint (M)", "Near Mint (NM or M-)", "Very Good Plus (VG+)", "Very Good (VG)",
      "Good Plus (G+)", "Good (G)", "Fair (F)", "Poor (P)">>

\* the value of the first preferred condition the map holds, null without one
FirstPresent(map) ==
    IF \E i \in 1..Len(PreferredConditions) : PreferredConditions[i] \in DOMAIN map
    THEN LET first == CHOOSE i \in 1..Len(PreferredConditions) :
                         /\ PreferredConditions[i] \in DOMAIN map
                         /\ \A j \in 1..(i - 1) : PreferredConditions[j] \notin DOMAIN map
         IN  Some(map[PreferredConditions[first]])
    ELSE None

\* the lookup of the current item of run r has returned a suggestion map
GotSuggestions(r) ==
    pc[r] = "L166" /\ retry[r].phase = "returned" /\ retry[r].result.kind = "prices"

\* C17: the value resolved from a suggestion map is the value of the first
\* condition of the preferred order that the map holds, and null when the map
\* is empty or holds none of them
C17_FirstPresentCondition ==
    [][\A r \in Runs :
          GotSuggestions(r) /\ pc'[r] = "L205"
              => loc'[r].itemSuggestedValue = FirstPresent(retry[r].result.map)]_vars

\* a map holding Good (G) and Poor (P) only has been resolved
C17_Witness ==
    \E r \in Runs :
        /\ pc[r] = "L258"
        /\ 1 \in DOMAIN tx[r].written
        /\ tx[r].written[1].suggested_value = Some(5)
        /\ tx[r].written[1].last_value_check = Some(1)

\* the error is that of a response with status 404 (client.ts 233)
IsNotFoundResponse(error) ==
    /\ error.name = "Error"
    /\ Len(error.message) >= 2
    /\ error.message[1] = "Discogs API request failed:"
    /\ error.message[2] = "404"

\* C18: a failed price request is turned into "no suggestions" exactly when
\* it failed with a 404 response, which takes a single request
C18_NullExactlyOnNotFound ==
    \A r \in Runs :
        pc[r] = "L166" /\ retry[r].phase = "threw"
            => /\ IsNotFound(retry[r].result) <=> IsNotFoundResponse(retry[r].result)
               /\ IsNotFoundResponse(retry[r].result) => retry[r].calls = 1

----------------------------------------------------------------------------
(* The snapshot insert, with aggregate values in both locale styles: a run *)
(* that has processed its one release is about to insert the snapshot row  *)
(* (syncLogic.ts 258).                                                     *)

\* currency strings with a decimal point and "," between the thousands groups
DecimalDotStrings ==
    {<<"$", "1", ".", "5", "6">>,
     <<"$", "1", ",", "2", "3", "4", ".", "5", "6">>,
     <<"$", "1", ",", "2", "3", "4", ",", "5", "6", "7", ".", "5", "6">>}

\* currency strings with a decimal comma and "." between the thousands groups
DecimalCommaStrings ==
    {<<"€", "1", ",", "5", "6">>,
     <<"€", "1", ".", "2", "3", "4", ",", "5", "6">>,
     <<"€", "1", ".", "2", "3", "4", ".", "5", "6", "7", ",", "5", "6">>}

\* strings that hold no number; the empty one also stands for a missing field
UnparsableStrings == {<< >>, <<"N", "/", "A">>}

CurrencyStrings == DecimalDotStrings \cup DecimalCommaStrings \cup UnparsableStrings

InitParse ==
    /\ settings = LookupSettings
    /\ items = EmptyTable
    /\ stats = << >>
    /\ clock = 1
    /\ env = [username |-> "u", consumer |-> TRUE]
    /\ server = <<RelA>>
    /\ pc = [r \in Runs |-> IF r = "http" THEN "L258" ELSE "idle"]
    /\ \E lo \in CurrencyStrings, mid \in CurrencyStrings, hi \in CurrencyStrings :
          loc = [r \in Runs |->
                    IF r = "http"
                    THEN [LookupLocals EXCEPT
                             !.valueResponse = [kind |-> "value", minimum |-> lo,
                                                median |-> mid, maximum |-> hi],
                             !.itemSuggestedValue = Some(20),
                             !.lastCheckTimestamp = Some(1)]
                    ELSE NoLocals]
    /\ retry = [r \in Runs |-> NoRetry]
    /\ tx = [r \in Runs |->
                IF r = "http"
                THEN [NoTx EXCEPT !.open = TRUE,
                                  !.written = Upsert(EmptyTable, 1,
                                                     ItemRow(RelA, Some(20), Some(1)))]
                ELSE NoTx]
    /\ obs = [r \in Runs |->
                 IF r = "http"
                 THEN [NoHistory EXCEPT !.requestSent = TRUE, !.txBegun = TRUE,
                                        !.sentAuth = Some(getAuthHeaders(
                                                       [key |-> TokenRows["oauth_token"],
                                                        secret |-> TokenRows["oauth_token_secret"]])),
                                        !.pages = 1, !.pageSizes = 1,
                                        !.received = <<RelA>>,
                                        !.statusWrites = <<"running">>,
                                        !.currentWrites = <<"1">>,
                                        !.lookups = <<[failed |-> FALSE, value |-> Some(20)]>>]
                 ELSE NoHistory]
    /\ Quiet

NextParse == \E r \in Runs : InsertStats(r) \/ Commit(r)

SpecParse == InitParse /\ [][NextParse]_vars

\* the positions of str that hold a separator
Separators(str) == {i \in 1..Len(str) : str[i] \in {".", ","}}

\* the digits of str at the positions from..to, in order
RECURSIVE DigitsBetween(_, _, _)
DigitsBetween(str, from, to) ==
    IF from > to THEN << >>
    ELSE IF str[from] \in Digits
    THEN <<str[from]>> \o DigitsBetween(str, from + 1, to)
    ELSE DigitsBetween(str, from + 1, to)

\* the number a currency string denotes when its last separator is the
\* decimal point and the separators before it group thousands
LastSeparatorAsPoint(str) ==
    LET last == CHOOSE i \in Separators(str) : \A j \in Separators(str) : j <= i
        int == DigitsBetween(str, 1, last - 1)
        frac == DigitsBetween(str, last + 1, Len(str))
    IN  Some(Decimal(DigitsToNat(int) * Pow10(Len(frac)) + DigitsToNat(frac), Len(frac)))

\* the number C19 expects for a string
ExpectedValue(str) ==
    IF str \in DecimalDotStrings \cup DecimalCommaStrings THEN LastSeparatorAsPoint(str)
    ELSE None

\* C19: the snapshot row holds, for each aggregate string in decimal-dot or
\* decimal-comma style, the number it denotes with its last separator as the
\* decimal point, and null for a string that holds no number
C19_ParsesBothLocaleStyles ==
    \A r \in Runs :
        pc[r] = "L283" /\ tx[r].stats # << >>
            => LET row == tx[r].stats[Len(tx[r].stats)]
               IN  /\ row.value_min = ExpectedValue(loc[r].valueResponse.minimum)
                   /\ row.value_mean = ExpectedValue(loc[r].valueResponse.median)
                   /\ row.value_max = ExpectedValue(loc[r].valueResponse.maximum)

\* the same, for the decimal-dot style and the strings without a number only
C19_ParsesDecimalDotStyle ==
    \A r \in Runs :
        pc[r] = "L283" /\ tx[r].stats # << >>
            => LET row == tx[r].stats[Len(tx[r].stats)]
                   str == loc[r].valueResponse.minimum
               IN  str \notin DecimalCommaStrings => row.value_min = ExpectedValue(str)

----------------------------------------------------------------------------
(* The two triggers together: the HTTP handler and the cron callback call  *)
(* runCollectionSync with nothing between them (sync/route.ts 8,           *)
(* scheduler.ts 33); their runs interleave at every await.  The behaviours *)
(* kept here are those in which no request and no statement fails, which   *)
(* are behaviours of the program: what is violated here is violated there. *)

\* the step leaves run r without a failure, a retry or a swallowed error
FaultFree(r) ==
    /\ obs'[r].failedAt = ""
    /\ retry'[r].phase # "threw"
    /\ retry'[r].slept = 0
    /\ retry'[r].phase = "returned" => retry'[r].result.kind # "null"

InitOverlap ==
    /\ settings = WithTokens(SyncedDb.settings)
    /\ items = SyncedDb.items
    /\ stats = SyncedDb.stats
    /\ clock = 0
    /\ env = [username |-> "u", consumer |-> TRUE]
    /\ server \in ServerCollections
    /\ pc = [r \in Runs |-> "idle"]
    /\ loc = [r \in Runs |-> NoLocals]
    /\ retry = [r \in Runs |-> NoRetry]
    /\ tx = [r \in Runs |-> NoTx]
    /\ obs = [r \in Runs |-> NoHistory]
    /\ Quiet

NextOverlap ==
    \E r \in Runs :
        \/ Start(r) /\ FaultFree(r)
        \/ EntryWrite(r) /\ FaultFree(r)
        \/ ClearLastError(r) /\ FaultFree(r)
        \/ Attempt(r) /\ FaultFree(r)
        \/ PageFetched(r) /\ FaultFree(r)
        \/ WriteTotal(r) /\ FaultFree(r)
        \/ ValueFetched(r) /\ FaultFree(r)
        \/ Begin(r) /\ FaultFree(r)
        \/ Delete(r) /\ FaultFree(r)
        \/ SetCurrent(r) /\ FaultFree(r)
        \/ PriceFetched(r) /\ FaultFree(r)
        \/ InsertItem(r) /\ FaultFree(r)
        \/ InsertStats(r) /\ FaultFree(r)
        \/ Commit(r) /\ FaultFree(r)
        \/ SetIdle(r) /\ FaultFree(r)
        \/ Respond(r) /\ FaultFree(r)

SpecOverlap == InitOverlap /\ [][NextOverlap]_vars

\* the runs between their entry and the return or throw that ends them
InFlight == {r \in Runs : pc[r] \notin {"idle", "done"}}

\* C20: at most one run of runCollectionSync is in flight at any time
C20_AtMostOneRunInFlight == Cardinality(InFlight) <= 1

----------------------------------------------------------------------------
(* The status a poller reads (sync/status/route.ts GET).                   *)

\* status/route.ts 13 and 21: the stored status, "unknown" for a missing or
\* empty row and for any value that is none of the three
PolledStatus ==
    LET row == getSetting("sync_status")
        status == IF row = None \/ row = Some("") THEN "unknown" ELSE row[1]
    IN  IF status \in {"idle", "running", "error"} THEN status ELSE "unknown"

\* the run has made its entry writes (syncLogic.ts 52-55) and has not reached
\* its terminal status write (62, 272 or 279) yet
InProgress(r) ==
    pc[r] \in {"L79", "L107", "L114", "L140", "L141", "L149", "L166", "L205",
               "L258", "L283"}

\* C21: whenever a run is in progress, a poller reads the status running
C21_PollerReadsRunning ==
    (\E r \in Runs : InProgress(r)) => PolledStatus = "running"

----------------------------------------------------------------------------
(* The status writes of one run.                                           *)

\* the last element of a non-empty sequence
Last(seq) == seq[Len(seq)]

\* no idle after error and no running after a terminal value
WritesInOrder(writes) ==
    \A i \in 1..Len(writes), j \in 1..Len(writes) :
        i < j => /\ ~(writes[i] = "error" /\ writes[j] = "idle")
                 /\ ~(writes[i] \in {"idle", "error"} /\ writes[j] = "running")

----------------------------------------------------------------------------
(* The handshake on its own: setup and callback requests, one at a time,   *)
(* while time passes.                                                      *)

InitOAuth ==
    /\ settings = EmptyTable
    /\ items = EmptyTable
    /\ stats = << >>
    /\ clock = 0
    /\ env \in [username : {"u"}, consumer : BOOLEAN]
    /\ server = << >>
    /\ pc = [r \in Runs |-> "idle"]
    /\ loc = [r \in Runs |-> NoLocals]
    /\ retry = [r \in Runs |-> NoRetry]
    /\ tx = [r \in Runs |-> NoTx]
    /\ obs = [r \in Runs |-> NoHistory]
    /\ Quiet

NextOAuth ==
    \/ SetupStart
    \/ SetupTokens
    \/ RequestTokenAttempt
    \/ SetupDone
    \/ CallbackStart
    \/ ExchangeAttempt
    \/ Exchanged
    \/ StoreAttempt
    \/ Stored
    \/ IdentityAttempt
    \/ Identified
    \/ Tick

SpecOAuth == InitOAuth /\ [][NextOAuth]_vars

\* the callback handler has answered that there is no ticket
TicketRefused ==
    /\ flow.op = "callback"
    /\ flow.pc = "idle"
    /\ flow.status = 400
    /\ flow.response = "Request token not found or expired"

C24_TicketIsSingleUse ==
    /\ flow.pc = "idle"
          => \A token \in discogs.used : getRequestTokenSecret(token, clock) = None
    /\ ~(flow.usedBefore /\ flow.exchangeSent)

\* the credential rows of the settings
CredentialRows(table) ==
    [k \in DOMAIN table \cap {"oauth_token", "oauth_token_secret"} |-> table[k]]

\* C25: in getAccessToken the credential rows are written only by the storage
\* step and only after the exchange has succeeded, and no exchange request is
\* sent once the exchange has succeeded, whatever the storage step does
C25_StoreAfterExchangeOnly ==
    /\ ~flow.sentAfterExchange
    /\ ~flow.storedBeforeExchange
    /\ flow.storeCalled => flow.exchanged
    /\ flow.op = "callback" /\ ~flow.exchanged
          => CredentialRows(settings) = CredentialRows(flow.settingsAtStart)
    /\ flow.op = "callback" /\ flow.pc = "oauth226"
          => /\ flow.tokens = Some(AccessTokensFor(flow.requestToken))
             /\ flow.w.op = "store"

\* the storage has failed three times and is about to be tried again
C25_Witness ==
    /\ flow.pc = "oauth226"
    /\ flow.exchanged
    /\ flow.w.phase = "attempt"
    /\ flow.w.calls = 3
    /\ CredentialRows(settings) # CredentialRows(flow.settingsAtStart)

----------------------------------------------------------------------------
(* Properties of makeDiscogsRequest.                                       *)

\* both credential rows are in the settings and neither is empty
PairStored ==
    /\ {"oauth_token", "oauth_token_secret"} \subseteq DOMAIN settings
    /\ settings["oauth_token"] # ""
    /\ settings["oauth_token_secret"] # ""

\* the header OAuth 1.0a with PLAINTEXT signatures prescribes for the stored pair
ExpectedHeader ==
    [oauth_consumer_key |-> "consumer-key", oauth_token |-> settings["oauth_token"],
     oauth_signature |-> <<"consumer-secret", settings["oauth_token_secret"]>>]

\* the withRetry call in flight is one of makeDiscogsRequest
IsDiscogsRequest(r) == retry[r].op \in {"page", "value", "price", "lookup"}

----------------------------------------------------------------------------
(* Properties of the stored credential.                                    *)

\* C27: once both credential rows are stored, no step of a setup or of a
\* callback request changes them
C27_CredentialIsNeverReplaced ==
    [][PairStored => CredentialRows(settings') = CredentialRows(settings)]_vars

----------------------------------------------------------------------------
(* The scheduler on its own: the module is loaded with some value of       *)
(* SYNC_CRON_SCHEDULE, setupScheduler is called, and the timer, when armed, *)
(* fires and runs the synchronisation.                                     *)

InitScheduler ==
    /\ \E authorised \in BOOLEAN :
          settings = IF authorised THEN WithTokens(SyncedDb.settings) ELSE SyncedDb.settings
    /\ items = SyncedDb.items
    /\ stats = SyncedDb.stats
    /\ clock = 0
    /\ env \in [username : {"", "u"}, consumer : {TRUE}]
    /\ server = <<RelA>>
    /\ pc = [r \in Runs |-> "idle"]
    /\ loc = [r \in Runs |-> NoLocals]
    /\ retry = [r \in Runs |-> NoRetry]
    /\ tx = [r \in Runs |-> NoTx]
    /\ obs = [r \in Runs |-> NoHistory]
    /\ files = EmptyTable
    /\ flow = NoFlow
    /\ discogs = NoIssuer
    /\ \E schedule \in Schedules : sched = NoScheduler(schedule)
    /\ poll = NoPoll

NextScheduler ==
    \/ SetupScheduler
    \/ TimerFires
    \/ EntryWrite("timer")
    \/ ClearLastError("timer")
    \/ NoUsername("timer")
    \/ Attempt("timer")
    \/ PageFetched("timer")
    \/ PageFailed("timer")
    \/ WriteTotal("timer")
    \/ ValueFetched("timer")
    \/ Begin("timer")
    \/ Delete("timer")
    \/ SetCurrent("timer")
    \/ PriceFetched("timer")
    \/ InsertItem("timer")
    \/ InsertStats("timer")
    \/ Commit("timer")
    \/ SetIdle("timer")
    \/ Handler("timer")
    \/ CallbackEnds

SpecScheduler == InitScheduler /\ [][NextScheduler]_vars

\* the console.error calls the module has made if it logged what it must:
\* one for an invalid expression, one for each run that threw
ExpectedErrors ==
    sched.failures
    + IF sched.called /\ ~validate(effectiveCronSchedule(sched.schedule)) THEN 1 ELSE 0

\* C28: no error leaves setupScheduler or the callback; after setupScheduler
\* the timer is armed exactly when the expression validates, and an invalid
\* expression has been logged as an error; without an armed timer no run is
\* started; every run of the callback that threw was caught and logged
C28_SchedulerNeverRaises ==
    /\ ~sched.raised
    /\ sched.called => (sched.armed <=> validate(effectiveCronSchedule(sched.schedule)))
    /\ ~sched.called => ~sched.armed
    /\ ~sched.armed => pc["timer"] = "idle" /\ sched.failures = 0 /\ clock = 0
    /\ sched.errors = ExpectedErrors

\* the timer was armed with a custom expression and its second run threw as
\* the first one had
C28_Witness ==
    /\ sched.schedule = "*/5 * * * *"
    /\ sched.armed
    /\ sched.failures = 2
    /\ sched.errors = 2
    /\ pc["timer"] = "idle"

----------------------------------------------------------------------------
(* Properties of the classification of failures.                           *)

\* the error is the one client.ts 233 throws for a non-2xx response
IsHttpFailure(error) ==
    /\ error.name = "Error"
    /\ Len(error.message) >= 4
    /\ error.message[1] = "Discogs API request failed:"

\* the status of the response behind such an error
StatusOf(error) == error.message[2]

\* the statuses the responses of the model carry, by class
ServerErrorStatuses == {"500", "501", "502", "503", "504"}
ClientErrorStatuses == {"401", "404", "408", "429"}

\* the newest invocation of the request of run r failed with error lastError
JustFailed(r) ==
    IsDiscogsRequest(r) /\ retry[r].calls >= 1 /\ retry[r].phase # "returned"

\* the call goes on to another attempt, or has used its last one
RetriedOrExhausted(w) ==
    \/ w.phase = "attempt" /\ w.slept = w.calls
    \/ w.phase = "threw" /\ w.calls = w.opts.maxRetries + 1 /\ w.result.name = "RetryError"

\* C29: a response with status 429 or 5xx is retried; a response with any
\* other 4xx status ends the call with the error of that response, whatever
\* its body says
C29_RetryByStatusClass ==
    \A r \in Runs :
        JustFailed(r) /\ IsHttpFailure(retry[r].lastError)
            => IF StatusOf(retry[r].lastError) \in ServerErrorStatuses \cup {"429"}
               THEN RetriedOrExhausted(retry[r])
               ELSE /\ StatusOf(retry[r].lastError) \in ClientErrorStatuses
                    /\ retry[r].phase = "threw"
                    /\ retry[r].result = retry[r].lastError

\* the failure is one of fetch itself, no response having arrived
IsNetworkFailure(error) == error \in FetchFailures

\* C30: a failure of fetch itself is retried, and when it persists the call
\* ends with the RetryError that carries it
C30_NetworkFailureIsRetried ==
    \A r \in Runs :
        JustFailed(r) /\ IsNetworkFailure(retry[r].lastError)
            => /\ RetriedOrExhausted(retry[r])
               /\ retry[r].phase = "threw" => retry[r].result.lastError = retry[r].lastError

----------------------------------------------------------------------------
(* The status route on its own: any rows under the four progress keys.     *)

StoredStatuses == {"idle", "running", "error", "pending", ""}
StoredCounters == {"", "0", "2", "abc", "2abc", "-1"}
StoredErrors == {<< >>, <<"fetch failed">>}

\* the settings table that holds the given rows (None: no row)
ProgressRows(status, current, total, lastError) ==
    LET row == [k \in {"sync_status", "sync_current_item", "sync_total_items",
                       "sync_last_error"} |->
                   CASE k = "sync_status" -> status
                     [] k = "sync_current_item" -> current
                     [] k = "sync_total_items" -> total
                     [] OTHER -> lastError]
    IN  [k \in {key \in DOMAIN row : row[key] # None} |-> row[k][1]]

\* a missing row, or a row with one of the values
Nullable(values) == {None} \cup {Some(v) : v \in values}

InitStatus ==
    /\ \E status \in Nullable(StoredStatuses), current \in Nullable(StoredCounters),
          total \in Nullable(StoredCounters), lastError \in Nullable(StoredErrors) :
          settings = ProgressRows(status, current, total, lastError)
    /\ items = EmptyTable
    /\ stats = << >>
    /\ clock = 0
    /\ env = [username |-> "u", consumer |-> TRUE]
    /\ server = << >>
    /\ pc = [r \in Runs |-> "idle"]
    /\ loc = [r \in Runs |-> NoLocals]
    /\ retry = [r \in Runs |-> NoRetry]
    /\ tx = [r \in Runs |-> NoTx]
    /\ obs = [r \in Runs |-> NoHistory]
    /\ Quiet

NextStatus == PollStart \/ StatusRead \/ PollAnswered

SpecStatus == InitStatus /\ [][NextStatus]_vars

\* the text is an integer literal: an optional minus sign, then digits only
IsNumeric(str) ==
    LET chars == Characters(str)
        digits == IF chars # << >> /\ Head(chars) = "-" THEN Tail(chars) ELSE chars
    IN  digits # << >> /\ \A i \in 1..Len(digits) : digits[i] \in Digits

\* the integer an integer literal denotes
IntegerOf(str) ==
    LET chars == Characters(str)
    IN  IF Head(chars) = "-" THEN 0 - DigitsToNat(Tail(chars)) ELSE DigitsToNat(chars)

\* the count C31 expects for the row of a counter key
ExpectedCount(row) == IF row = None \/ ~IsNumeric(row[1]) THEN 0 ELSE IntegerOf(row[1])

\* the status C31 expects for the row of sync_status
ExpectedStatus(row) ==
    IF row # None /\ row[1] \in {"idle", "running", "error"} THEN row[1] ELSE "unknown"

\* the response of the route is there and is not the 500 of a failed read
Reported == poll.pc = "answered" /\ poll.response[1].code = 200

\* C31: for every combination of stored progress values the route reports the
\* status as stored when it is idle, running or error and unknown otherwise,
\* each counter as the stored integer, 0 when the row is absent or not
\* numeric, and lastError as null when the row is absent or empty
C31_ReportsStoredProgress ==
    Reported
        => /\ poll.response[1].status = ExpectedStatus(getSetting("sync_status"))
           /\ poll.response[1].currentItem = ExpectedCount(getSetting("sync_current_item"))
           /\ poll.response[1].totalItems = ExpectedCount(getSetting("sync_total_items"))
           /\ poll.response[1].lastError = OrNull(getSetting("sync_last_error"))

\* the same for the rows that are absent, integer literals, or texts that do
\* not begin with a digit
C31_ReportsStoredProgressOfCleanRows ==
    /\ Reported
    /\ \A key \in {"sync_current_item", "sync_total_items"} :
          getSetting(key) # None /\ ~IsNumeric(getSetting(key)[1])
              => parseInt(getSetting(key)[1]) = None
    => /\ poll.response[1].status = ExpectedStatus(getSetting("sync_status"))
       /\ poll.response[1].currentItem = ExpectedCount(getSetting("sync_current_item"))
       /\ poll.response[1].totalItems = ExpectedCount(getSetting("sync_total_items"))
       /\ poll.response[1].lastError = OrNull(getSetting("sync_last_error"))

----------------------------------------------------------------------------
(* The progress counter of the item phase.                                 *)

\* the count the status route reports for a counter key in this state
StoredCount(key) == NaNToZero(parseInt(OrDefault(getSetting(key), "0")))

\* C32: in the item phase sync_current_item is written with 1, 2, ..., N in
\* this order; the write of i is made before the price lookup of record i;
\* invalid records are counted too, so that the counter equals
\* sync_total_items when the run succeeds
C32_CurrentItemCountsRecords ==
    \A r \in Runs :
        LET writes == obs[r].currentWrites
        IN  /\ \A i \in 1..Len(writes) : parseInt(writes[i]) = Some(i)
            /\ Len(obs[r].lookups) <= Len(writes)
            /\ pc[r] = "L166" => Len(writes) = Len(obs[r].lookups) + 1
            /\ Finished(r) /\ obs[r].result = "returned"
                  => /\ Len(writes) = Len(obs[r].received)
                     /\ StoredCount("sync_current_item") = Len(obs[r].received)
                     /\ StoredCount("sync_current_item") = StoredCount("sync_total_items")

\* a run over three records, the second one invalid, has returned
C32_Witness ==
    \E r \in Runs :
        /\ Finished(r)
        /\ obs[r].result = "returned"
        /\ obs[r].currentWrites = <<"1", "2", "3">>
        /\ ~IsValidRelease(obs[r].received[2])
        /\ StoredCount("sync_total_items") = 3

----------------------------------------------------------------------------
(* A reader of collection_items beside a run.                              *)

\* db 258: a SELECT sent through the pool runs on a connection of its own and
\* reads the committed rows only (READ COMMITTED); the statements of the run
\* go through the client of its transaction (syncLogic.ts 141, 205)
ItemsRead_dirty ==
    IF \E r \in Runs : tx[r].open
    THEN CommittedItems(tx[CHOOSE r \in Runs : tx[r].open])
    ELSE items
ItemsRead == items

\* the table holds one row for every valid record the run fetched, with the
\* release of the last record of its instance id
IsPostRunSet(table, r) ==
    LET all == obs[r].received
    IN  /\ DOMAIN table = {all[i].instance_id : i \in {j \in 1..Len(all) : IsValidRelease(all[j])}}
        /\ \A i \in 1..Len(all) :
              LastWriter(all, i) => table[all[i].instance_id].release_id = all[i].id

\* C33: from the DELETE of a run to its commit or rollback a reader sees the
\* whole item set of before the run; after the commit it sees the whole item
\* set of the run; after a rollback it sees the set of before the run again
C33_ReaderSeesWholeSet ==
    \A r \in Runs :
        /\ tx[r].open => ItemsRead = obs[r].preItems
        /\ obs[r].txBegun /\ ~tx[r].open
              => IF obs[r].committed THEN IsPostRunSet(ItemsRead, r)
                 ELSE ItemsRead = obs[r].preItems

\* the transaction of a run has deleted the item of the earlier run and holds
\* a first row of its own, with more records to come
C33_Witness ==
    \E r \in Runs :
        /\ tx[r].open
        /\ tx[r].deleted # {}
        /\ DOMAIN tx[r].written # {}
        /\ loc[r].processedCount < Len(loc[r].allReleases)
        /\ ItemsRead = obs[r].preItems
        /\ ItemsRead # EmptyTable

----------------------------------------------------------------------------
(* The progress counters between and during the runs.                      *)

\* C34: with the runs taken one after the other, in every state the stored
\* sync_current_item is at most the stored sync_total_items
C34_CurrentAtMostTotal ==
    StoredCount("sync_current_item") <= StoredCount("sync_total_items")

\* a second run has reset the current item and not yet the total of the run
\* before it, which had three records
C34_Witness ==
    \E r \in Runs :
        /\ clock = 2
        /\ pc[r] = "L54"
        /\ StoredCount("sync_current_item") = 0
        /\ StoredCount("sync_total_items") = 3

\* C35: while the stored status is running and the run that stored it has not
\* finished pagination, the last error is empty and both counters are 0
C35_RunningShowsNothingOlder ==
    \A r \in Runs :
        /\ pc[r] \in {"L53", "L54", "L55", "L62", "L79", "L107"}
        /\ obs[r].statusWrites = <<"running">>
        /\ PolledStatus = "running"
        => /\ OrNull(getSetting("sync_last_error")) = None
           /\ StoredCount("sync_current_item") = 0
           /\ StoredCount("sync_total_items") = 0

----------------------------------------------------------------------------
(* Two runs that overlap.                                                  *)

\* both triggers have a run that has returned and whose caller has not taken
\* the result yet, each over valid records of distinct instance ids
BothReturned ==
    \A r \in Runs :
        /\ Finished(r)
        /\ obs[r].result = "returned"
        /\ AllValidAndDistinct(obs[r].received)

\* C36: when both runs have returned, collection_items is the item set one of
\* them fetched and the newest snapshot counts its rows
C36_OverlapKeepsOneRun ==
    BothReturned
        => /\ \E r \in Runs : IsPostRunSet(items, r)
           /\ stats[Len(stats)].total_items = RowCount

----------------------------------------------------------------------------
(* Termination of a run.  The server may link every page to a next one;    *)
(* every request and every store operation completes, with a result or     *)
(* with a failure: the step a run is suspended at is eventually taken.     *)

InitEndless ==
    /\ \E authorised \in BOOLEAN :
          settings = IF authorised THEN WithTokens(SyncedDb.settings) ELSE SyncedDb.settings
    /\ items = SyncedDb.items
    /\ stats = SyncedDb.stats
    /\ clock = 0
    /\ env \in [username : {"", "u"}, consumer : {TRUE}]
    /\ server = <<RelA>>
    /\ pc = [r \in Runs |-> "idle"]
    /\ loc = [r \in Runs |-> NoLocals]
    /\ retry = [r \in Runs |-> NoRetry]
    /\ tx = [r \in Runs |-> NoTx]
    /\ obs = [r \in Runs |-> NoHistory]
    /\ files = EmptyTable
    /\ flow = NoFlow
    /\ discogs = [NoIssuer EXCEPT !.endless = TRUE]
    /\ sched = Scheduled
    /\ poll = NoPoll

\* the step of the run of r that its pending await completes with
RunStep(r) ==
    \/ EntryWrite(r)
    \/ ClearLastError(r)
    \/ NoUsername(r)
    \/ Attempt(r)
    \/ PageFetched(r)
    \/ PageFailed(r)
    \/ WriteTotal(r)
    \/ ValueFetched(r)
    \/ Begin(r)
    \/ Delete(r)
    \/ SetCurrent(r)
    \/ PriceFetched(r)
    \/ InsertItem(r)
    \/ InsertStats(r)
    \/ Commit(r)
    \/ SetIdle(r)
    \/ Handler(r)

NextEndless ==
    \/ Start("http")
    \/ RunStep("http")
    \/ Respond("http")

SpecEndless == InitEndless /\ [][NextEndless]_vars /\ WF_vars(RunStep("http"))

\* C37: every run that has started eventually returns or raises, whatever
\* pages and continuation references the server returns
C37_RunEnds == \A r \in Runs : (pc[r] = "L52") ~> Finished(r)

\* the same, and the run has stored idle or error as its last status
C37_RunEndsWithTerminalStatus ==
    \A r \in Runs :
        (pc[r] = "L52")
            ~> /\ Finished(r)
               /\ obs[r].statusWrites # << >>
               /\ Last(obs[r].statusWrites) \in {"idle", "error"}

----------------------------------------------------------------------------
(* The stored credential as a pair.                                        *)

\* the pairs the token endpoint has issued: a key with the secret of its exchange
IssuedPairs ==
    {[key |-> AccessTokensFor(token).key, secret |-> AccessTokensFor(token).secret] :
        token \in discogs.used}

\* C38: the pair getStoredTokens returns is absent or a key with the secret
\* that was issued with it
C38_StoredPairIsOneExchange ==
    getStoredTokens # None => getStoredTokens[1] \in IssuedPairs

====
